---- MODULE Spec2Model ----
(***************************************************************************)
(* A model of the NNUE trainer's core: the HalfKP position codec           *)
(* (nnue_trainer.py, HalfKPFeatures), the score mapping between the        *)
(* network's bounded output and centipawns (model_eval.py,                 *)
(* ModelEvaluator.evaluate_position; nnue_trainer.py,                      *)
(* ChessDataset.__getitem__) and the binary exporter (model_eval.py,       *)
(* NNUEExporter), and the network's forward pass as benchmark_speed runs   *)
(* it, one position at a time and on the whole batch.                      *)
(* Further, the loading of training data (nnue_trainer.py,                 *)
(* DatabaseConnection.load_training_data), the training loop               *)
(* (NNUETrainer.train) with its checkpoints and its final export, and      *)
(* the validation of a configuration by the scripts that start training    *)
(* (training_config.py, NNUE.py, nnue_main.py, quick_start.py).            *)
(*                                                                         *)
(* A feature vector (np.zeros(768), entries set to 1.0) is modelled by     *)
(* its support: the set of indices whose entry is 1.0.  Its sum is the     *)
(* cardinality of that set.                                                *)
(***************************************************************************)
EXTENDS Integers, Sequences, FiniteSets, TLC

VARIABLES
    board,            \* chess.Board(fen).piece_map(): square -> piece
    turn,             \* chess.Board(fen).turn
    call,             \* the entry point that is running
    pc,               \* where the running entry point is
    color,            \* _get_halfkp_features: its color argument
    king_square,      \* _get_halfkp_features: its local king_square
    todo,             \* _get_halfkp_features: squares the loop has yet to visit
    features,         \* _get_halfkp_features: its local features
    white_features,   \* position_to_features: its local white_features
    black_features,   \* position_to_features: its local black_features
    exc,              \* the exception that ended the call, "none" if none
    eval_scale,       \* config.eval_scale
    net_input,        \* evaluate_position: the vector given to self.model
    net_out,          \* evaluate_position: self.model(features_tensor).item()
    evaluation,       \* evaluate_position: the value it returned
    position,         \* ChessDataset: the tuple positions[idx]
    item,             \* ChessDataset.__getitem__: the triple it returned
    model,            \* self.model: which set of parameter values it holds
    test_positions,   \* benchmark_speed: its local test_positions
    single_outs,      \* benchmark_speed: what self.model gave, one by one
    features_batch,   \* benchmark_speed: its local features_batch
    batch_outs,       \* benchmark_speed: self.model(features_tensor)
    bpc,              \* where benchmark_speed is
    input_size,       \* config.input_size
    hidden_size,      \* config.hidden_size
    state_dict,       \* self.model's values: of its weights, of its biases
    xpc,              \* where export_stockfish_nnue and its caller are
    xstep,            \* the header field or named parameter to handle next
    stream,           \* the file object f: "unopened", "open" or "closed"
    dest,             \* the file at output_path
    write_failed,     \* whether a write of this export has raised
    xexc,             \* the exception in flight, "none" if none
    stdout,           \* what has been printed, in order
    config,           \* the TrainingConfig in use
    rows,             \* load_training_data: what cursor.fetchall() gives
    positions,        \* load_training_data: its local positions
    seen_zobrist,     \* load_training_data: its local seen_zobrist
    row_idx,          \* load_training_data: the row the loop handles next
    conn,             \* the connection: "unopened", "open" or "closed"
    lpc,              \* where load_training_data is
    lexc,             \* the exception load_training_data raised, or "none"
    tpc,              \* where NNUETrainer.train is
    train_positions,  \* train: its local train_positions
    val_positions,    \* train: its local val_positions
    epoch,            \* train: the loop variable epoch
    model_state,      \* the model's parameters: how many epochs trained them
    val_loss,         \* train: its local val_loss
    best_val_loss,    \* train: its local best_val_loss
    val_history,      \* the validation losses logged, one per epoch
    best_pth,         \* the file <model_name>_best.pth
    epoch_pths,       \* the files <model_name>_epoch_<k>.pth
    export_attempts,  \* the calls of _export_nnue, in order
    final_nnue,       \* the file <model_name>_final.nnue
    texc,             \* the exception train raised, or "none"
    entry,            \* the script whose main is running
    overrides,        \* the command line's overrides of the configuration
    answer,           \* what the user types at quick_start's prompt
    cuda_available,   \* torch.cuda.is_available()
    mpc,              \* where main is
    issues,           \* main: what validate_config returned
    rc                \* main: its return value, -1 while it runs

codec_vars == <<board, turn, call, pc, color, king_square, todo, features,
                white_features, black_features, exc>>

bench_vars == <<model, test_positions, single_outs, features_batch,
                batch_outs, bpc>>

eval_vars == <<eval_scale, net_input, net_out, evaluation, position, item,
               bench_vars>>

export_vars == <<state_dict, input_size, hidden_size, xpc, xstep, stream, dest,
                 write_failed, xexc, stdout>>

load_vars == <<rows, positions, seen_zobrist, row_idx, conn, lpc, lexc>>

train_vars == <<tpc, train_positions, val_positions, epoch, model_state, val_loss,
                best_val_loss, val_history, best_pth, epoch_pths,
                export_attempts, final_nnue, texc>>

main_vars == <<entry, overrides, answer, cuda_available, mpc, issues, rc>>

run_vars == <<config, load_vars, train_vars, main_vars>>

vars == <<codec_vars, eval_vars, export_vars, run_vars>>

----------------------------------------------------------------------------
(* Bounds of the model.                                                    *)

\* The most rows the query gives.
MaxRows == 3

\* The most epochs a training run has.
MaxEpochs == 3

\* The most non-king pieces PlacePiece puts on a board.
MaxPieces == 2

\* The most positions benchmark_speed is called with (num_positions).
MaxBatch == 2

\* config.hidden_size of the network benchmark_speed runs.
BenchHidden == 4

\* The squares PlacePiece puts the white king on (a1, b1, e1) and the black
\* king on (a8, e8).
WhiteKingSquares == {0, 1, 4}
BlackKingSquares == {56, 60}

\* The squares PlacePiece puts the other pieces on: a2, d4, a7.
PieceSquares == {8, 27, 48}

----------------------------------------------------------------------------
(* python-chess names used by the code.                                    *)

WHITE == TRUE
BLACK == FALSE
Colors == {WHITE, BLACK}

PAWN == 1
KNIGHT == 2
BISHOP == 3
ROOK == 4
QUEEN == 5
KING == 6
PieceTypes == {PAWN, KNIGHT, BISHOP, ROOK, QUEEN, KING}

\* board.king(color) without a king of that color: no square.
None == -1

Squares == 0..63

Max(S) == CHOOSE x \in S : \A y \in S : y <= x
Min(S) == CHOOSE x \in S : \A y \in S : x <= y

\* chess.square_mirror: the rank flip, square ^ 0x38.
square_mirror(square) == (7 - (square \div 8)) * 8 + (square % 8)

Piece(piece_type, c) == [piece_type |-> piece_type, color |-> c]

\* board.king(color): the square of the king of that color, None without one.
king(b, c) ==
    LET ks == {s \in DOMAIN b : b[s] = Piece(KING, c)}
    IN  IF ks = {} THEN None ELSE Max(ks)

EmptyBoard == [s \in {} |-> Piece(PAWN, WHITE)]

BackRank == <<ROOK, KNIGHT, BISHOP, QUEEN, KING, BISHOP, KNIGHT, ROOK>>

\* The piece map of rnbqkbnr/pppppppp/8/8/8/8/PPPPPPPP/RNBQKBNR w KQkq - 0 1.
StartBoard ==
    [s \in (0..15) \cup (48..63) |->
        IF s < 8 THEN Piece(BackRank[s + 1], WHITE)
        ELSE IF s < 16 THEN Piece(PAWN, WHITE)
        ELSE IF s < 56 THEN Piece(PAWN, BLACK)
        ELSE Piece(BackRank[s - 55], BLACK)]

NonKingSquares(b) == {s \in DOMAIN b : b[s].piece_type # KING}

----------------------------------------------------------------------------
(* HalfKPFeatures.                                                         *)

\* np.zeros(768): the length of a feature vector.
FEATURE_SIZE == 768

\* self.piece_to_index
piece_to_index ==
    [t \in PieceTypes |->
        CASE t = PAWN -> 0 [] t = KNIGHT -> 1 [] t = BISHOP -> 2
          [] t = ROOK -> 3 [] t = QUEEN -> 4 [] t = KING -> 5]

\* feature_idx of one piece.
FeatureIdx(ksq, piece_color, piece_type_idx, square) ==
    ksq * 10 * 64 + piece_color * 6 * 64 + piece_type_idx * 64 + square

\* The square as the perspective sees it: chess.square_mirror for black.
PerspectiveSquare_NoMirror(c, square) == square

PerspectiveSquare(c, square) ==
    IF c = BLACK THEN square_mirror(square) ELSE square

\* The index the loop computes for the piece on square s while
\* the perspective c is encoded with its king on (perspective) square ksq.
PieceIndex(b, c, ksq, s) ==
    FeatureIdx(ksq,
               IF b[s].color = c THEN 0 ELSE 1,
               piece_to_index[b[s].piece_type],
               PerspectiveSquare(c, s))

\* features[feature_idx] = 1.0 under the guard 0 <= feature_idx < 768.
SetFeature_NoGuard(fs, feature_idx) == fs \cup {feature_idx}

SetFeature(fs, feature_idx) ==
    IF 0 <= feature_idx /\ feature_idx < FEATURE_SIZE
    THEN fs \cup {feature_idx}
    ELSE fs

\* One iteration of the loop over board.piece_map().items().
Visit_KingsEncoded(fs, b, c, ksq, square) ==
    SetFeature(fs, PieceIndex(b, c, ksq, square))

Visit(fs, b, c, ksq, square) ==
    IF b[square].piece_type = KING
    THEN fs
    ELSE LET sq == PerspectiveSquare(c, square)
             piece_color == IF b[square].color = c THEN 0 ELSE 1
             piece_type_idx == piece_to_index[b[square].piece_type]
         IN  SetFeature(fs, FeatureIdx(ksq, piece_color, piece_type_idx, sq))

\* The start of _get_halfkp_features, up to the loop: the zero vector, the
\* king's square (mirrored for black), and the early return without a king.
FindKing_Raises(b, c) ==
    LET k == king(b, c)
    IN  IF k = None
        THEN [returns |-> TRUE, king_square |-> None, exc |-> "ValueError"]
        ELSE [returns |-> FALSE, king_square |-> PerspectiveSquare(c, k),
              exc |-> "none"]

FindKing(b, c) ==
    LET k == king(b, c)
    IN  IF k = None
        THEN [returns |-> TRUE, king_square |-> None, exc |-> "none"]
        ELSE [returns |-> FALSE, king_square |-> PerspectiveSquare(c, k),
              exc |-> "none"]

\* The squares the loop may visit next: piece_map() scans the occupied
\* squares in one direction.
NextSquares(remaining) == {Max(remaining), Min(remaining)}

\* The loop of _get_halfkp_features run to its end.
RECURSIVE VisitAll(_, _, _, _, _)
VisitAll(fs, b, c, ksq, remaining) ==
    IF remaining = {} THEN fs
    ELSE LET square == Max(remaining)
         IN  VisitAll(Visit(fs, b, c, ksq, square), b, c, ksq,
                      remaining \ {square})

\* _get_halfkp_features(board, color) as a function of its arguments.
get_halfkp_features(b, c) ==
    LET found == FindKing(b, c)
    IN  IF found.returns THEN {}
        ELSE VisitAll({}, b, c, found.king_square, DOMAIN b)

----------------------------------------------------------------------------
(* The positions the entry points are called on.                           *)

NonKingCount(b) == Cardinality(NonKingSquares(b))

\* A piece is put on an empty square of the board being set up; a board has
\* at most one king of each color.
PlacePiece(square, piece_type, c) ==
    /\ pc = "setup"
    /\ square \notin DOMAIN board
    /\ IF piece_type = KING
       THEN /\ square \in (IF c = WHITE THEN WhiteKingSquares
                                         ELSE BlackKingSquares)
            /\ king(board, c) = None
       ELSE square \in PieceSquares /\ NonKingCount(board) < MaxPieces
    /\ board # StartBoard
    /\ board' = [s \in DOMAIN board \cup {square} |->
                    IF s = square THEN Piece(piece_type, c) ELSE board[s]]
    /\ UNCHANGED <<turn, call, pc, color, king_square, todo, features,
                   white_features, black_features, exc>>
    /\ UNCHANGED <<eval_vars, export_vars, run_vars>>

\* The standard starting position: the FEN of test_imports and
\* test_model_creation.
LoadStartPosition ==
    /\ pc = "setup"
    /\ board = EmptyBoard
    /\ board' = StartBoard
    /\ UNCHANGED <<turn, call, pc, color, king_square, todo, features,
                   white_features, black_features, exc>>
    /\ UNCHANGED <<eval_vars, export_vars, run_vars>>

----------------------------------------------------------------------------
(* position_to_features and _get_halfkp_features, step by step.            *)

\* _get_halfkp_features(board, c) is entered.
Enter_KeepsFeatures(c) ==
    LET found == FindKing(board, c)
    IN  /\ color' = c
        /\ features' = features
        /\ king_square' = found.king_square
        /\ exc' = found.exc
        /\ todo' = IF found.returns THEN {} ELSE DOMAIN board
        /\ pc' = IF found.exc # "none" THEN "raised" ELSE "loop"

Enter(c) ==
    LET found == FindKing(board, c)
    IN  /\ color' = c
        /\ features' = {}
        /\ king_square' = found.king_square
        /\ exc' = found.exc
        /\ todo' = IF found.returns THEN {} ELSE DOMAIN board
        /\ pc' = IF found.exc # "none" THEN "raised" ELSE "loop"

\* position_to_features(fen): the board is built and the white perspective
\* is entered.
PositionToFeatures ==
    /\ pc = "setup"
    /\ call' = "position_to_features"
    /\ Enter(WHITE)
    /\ UNCHANGED <<board, turn, white_features, black_features>>
    /\ UNCHANGED <<eval_vars, export_vars, run_vars>>

\* position_to_features is called once more on the same HalfKPFeatures
\* instance, with a FEN of the same piece placement.
PositionToFeaturesAgain ==
    /\ pc = "encoded"
    /\ call = "position_to_features"
    /\ call' = "position_to_features_again"
    /\ Enter(WHITE)
    /\ UNCHANGED <<board, turn, white_features, black_features>>
    /\ UNCHANGED <<eval_vars, export_vars, run_vars>>

\* One iteration of the loop.
GetHalfKPStep ==
    /\ pc = "loop"
    /\ todo # {}
    /\ \E square \in NextSquares(todo) :
          /\ features' = Visit(features, board, color, king_square, square)
          /\ todo' = todo \ {square}
    /\ UNCHANGED <<board, turn, call, pc, color, king_square,
                   white_features, black_features, exc>>
    /\ UNCHANGED <<eval_vars, export_vars, run_vars>>

\* The white perspective returns its features; the black one is entered.
ReturnWhite ==
    /\ pc = "loop"
    /\ todo = {}
    /\ color = WHITE
    /\ white_features' = features
    /\ Enter(BLACK)
    /\ UNCHANGED <<board, turn, call, black_features>>
    /\ UNCHANGED <<eval_vars, export_vars, run_vars>>

\* The black perspective returns its features, and position_to_features
\* returns the pair.
ReturnBlack ==
    /\ pc = "loop"
    /\ todo = {}
    /\ color = BLACK
    /\ black_features' = features
    /\ pc' = "encoded"
    /\ UNCHANGED <<board, turn, call, color, king_square, todo, features,
                   white_features, exc>>
    /\ UNCHANGED <<eval_vars, export_vars, run_vars>>

----------------------------------------------------------------------------
(* Numbers.  Python floats are modelled by exact rationals n/d in lowest   *)
(* terms with d > 0, so that scaling and dividing are the arithmetic       *)
(* operations themselves and not a rounding of them.                       *)

Abs(n) == IF n < 0 THEN -n ELSE n

RECURSIVE GCD(_, _)
GCD(a, b) == IF b = 0 THEN a ELSE GCD(b, a % b)

Rat(n, d) ==
    LET g == GCD(Abs(n), Abs(d))
        sgn == IF d < 0 THEN -1 ELSE 1
    IN  [n |-> sgn * (n \div g), d |-> sgn * (d \div g)]

Mul(a, b) == Rat(a.n * b.n, a.d * b.d)
Div(a, b) == Rat(a.n * b.d, a.d * b.n)
Neg(a) == [n |-> -a.n, d |-> a.d]
Leq(a, b) == a.n * b.d <= b.n * a.d

\* np.clip(x, lo, hi)
Clip(x, lo, hi) == IF Leq(x, lo) THEN lo ELSE IF Leq(hi, x) THEN hi ELSE x

\* The outputs of the network's final Tanh that the model draws from: the
\* multiples of 1/ScalarDen strictly between -1 and 1.
ScalarDen == 4
BoundedScalars == {Rat(n, ScalarDen) : n \in (1 - ScalarDen)..(ScalarDen - 1)}

\* The values of config.eval_scale the model draws from: the default 361.0
\* and a fractional one.
EvalScales == {Rat(361, 1), Rat(1, 2)}

\* The evaluations of database rows the model draws from: within the
\* scale, beyond it, and the largest one the query of load_training_data
\* admits under the defaults (max_eval * eval_scale = 10.0 * 361.0).
StoredEvaluations == {Rat(0, 1), Rat(150, 1), Rat(-722, 1), Rat(3610, 1)}

\* cg.Result IN ('1-0', '0-1', '1/2-1/2')
Results == {"1-0", "0-1", "1/2-1/2"}

\* The boards evaluate_position and __getitem__ are called on: king and pawn
\* against king and knight with the kings on a1 and a8, and a pawn ending
\* with the kings on b1 and e8.
SampleBoards ==
    { (0 :> Piece(KING, WHITE)) @@ (56 :> Piece(KING, BLACK))
        @@ (8 :> Piece(PAWN, WHITE)) @@ (27 :> Piece(KNIGHT, BLACK)),
      (1 :> Piece(KING, WHITE)) @@ (60 :> Piece(KING, BLACK))
        @@ (8 :> Piece(PAWN, WHITE)) @@ (48 :> Piece(PAWN, BLACK)) }

----------------------------------------------------------------------------
(* ModelEvaluator.evaluate_position and ChessDataset.__getitem__.          *)

\* features = white_features if board.turn == chess.WHITE else black_features
SelectFeatures(t, wf, bf) == IF t = WHITE THEN wf ELSE bf

\* evaluation *= eval_scale, and the flip for black to move.
ToExternalScore_NoFlip(y, scale, t) == Mul(y, scale)

ToExternalScore(y, scale, t) ==
    LET scaled == Mul(y, scale)
    IN  IF t = BLACK THEN Neg(scaled) ELSE scaled

\* The flip for black to move, and np.clip(evaluation / eval_scale, -1, 1).
ToTrainingTarget_NoFlip(e, scale, t) ==
    Clip(Div(e, scale), Rat(-1, 1), Rat(1, 1))

ToTrainingTarget_NoClip(e, scale, t) ==
    Div(IF t = BLACK THEN Neg(e) ELSE e, scale)

ToTrainingTarget(e, scale, t) ==
    LET flipped == IF t = BLACK THEN Neg(e) ELSE e
    IN  Clip(Div(flipped, scale), Rat(-1, 1), Rat(1, 1))

\* outcome: 0.5 for a draw, else 1.0 if the side to move won and 0.0 if not.
Outcome(result, t) ==
    IF result = "1-0" THEN (IF t = WHITE THEN Rat(1, 1) ELSE Rat(0, 1))
    ELSE IF result = "0-1" THEN (IF t = WHITE THEN Rat(0, 1) ELSE Rat(1, 1))
    ELSE Rat(1, 2)

NoPosition == [evaluation |-> Rat(0, 1), result |-> "none", source |-> "none"]
NoItem == [features |-> {}, evaluation |-> Rat(0, 1), outcome |-> Rat(0, 1)]

\* benchmark_speed has not been called.
BenchIdle ==
    /\ model = 1
    /\ test_positions = <<>>
    /\ single_outs = <<>>
    /\ features_batch = <<>>
    /\ batch_outs = <<>>
    /\ bpc = "idle"

\* No evaluation and no dataset access has happened.
EvalIdle ==
    /\ BenchIdle
    /\ eval_scale = Rat(361, 1)
    /\ net_input = {}
    /\ net_out = Rat(0, 1)
    /\ evaluation = Rat(0, 1)
    /\ position = NoPosition
    /\ item = NoItem

\* evaluate_position(fen) is called: it calls position_to_features.
EvaluatePosition ==
    /\ pc = "setup"
    /\ call' = "evaluate_position"
    /\ Enter(WHITE)
    /\ UNCHANGED <<board, turn, white_features, black_features>>
    /\ UNCHANGED <<eval_vars, export_vars, run_vars>>

\* nn.Linear(in_features, ...) applied to rows of the given width: the
\* product is defined only when the two agree.
ShapeMatches_Always(width, in_features) == TRUE

ShapeMatches(width, in_features) == width = in_features

\* The rest of evaluate_position: the side to move's vector goes through
\* the network, whose output y is any bounded scalar, and is mapped to the
\* returned score; a vector the first layer cannot take makes the call of
\* the network raise, and nothing in evaluate_position catches it.
EvaluateReturn ==
    /\ pc = "encoded"
    /\ call = "evaluate_position"
    /\ net_input' = SelectFeatures(turn, white_features, black_features)
    /\ IF ShapeMatches(FEATURE_SIZE, input_size)
       THEN /\ \E y \in BoundedScalars :
                  /\ net_out' = y
                  /\ evaluation' = ToExternalScore(y, eval_scale, turn)
            /\ pc' = "returned"
            /\ exc' = exc
       ELSE /\ exc' = "RuntimeError"
            /\ pc' = "raised"
            /\ UNCHANGED <<net_out, evaluation>>
    /\ UNCHANGED <<board, turn, call, color, king_square, todo, features,
                   white_features, black_features>>
    /\ UNCHANGED <<eval_scale, position, item, bench_vars>>
    /\ UNCHANGED <<export_vars, run_vars>>

\* The tuples __getitem__ may find in positions[idx] for the board's FEN:
\* a database row, or the score evaluate_position has just returned for it.
Positions ==
    {[evaluation |-> e, result |-> r, source |-> "database"] :
        e \in StoredEvaluations, r \in Results}
    \cup (IF pc = "returned" /\ call = "evaluate_position"
          THEN {[evaluation |-> evaluation, result |-> r,
                 source |-> "evaluate_position"] : r \in Results}
          ELSE {})

\* __getitem__(idx) is called: it reads the tuple and calls
\* position_to_features.
GetItem ==
    /\ \/ pc = "setup"
       \/ pc = "returned" /\ call = "evaluate_position"
    /\ \E p \in Positions : position' = p
    /\ call' = "getitem"
    /\ Enter(WHITE)
    /\ UNCHANGED <<board, turn, white_features, black_features>>
    /\ UNCHANGED <<eval_scale, net_input, net_out, evaluation, item,
                   bench_vars>>
    /\ UNCHANGED <<export_vars, run_vars>>

\* The rest of __getitem__: the features of the side to move, the training
\* target and the outcome.
GetItemReturn ==
    /\ pc = "encoded"
    /\ call = "getitem"
    /\ item' = [features |->
                    SelectFeatures(turn, white_features, black_features),
                evaluation |->
                    ToTrainingTarget(position.evaluation, eval_scale, turn),
                outcome |-> Outcome(position.result, turn)]
    /\ pc' = "returned"
    /\ UNCHANGED <<board, turn, call, color, king_square, todo, features,
                   white_features, black_features, exc>>
    /\ UNCHANGED <<eval_scale, net_input, net_out, evaluation, position,
                   bench_vars>>
    /\ UNCHANGED <<export_vars, run_vars>>

----------------------------------------------------------------------------
(* NNUE: the network's parameters, as named_parameters() lists them.       *)

\* The width of the layer between the feature transformer and the output.
BOTTLENECK == 32

\* A parameter's name is the sequence of the components its dotted name is
\* made of.
Param(name, shape) == [name |-> name, shape |-> shape]

named_parameters(in, hid) ==
    << Param(<<"feature_transformer", "0", "weight">>, <<hid, in>>),
       Param(<<"feature_transformer", "0", "bias">>, <<hid>>),
       Param(<<"feature_transformer", "2", "weight">>, <<BOTTLENECK, hid>>),
       Param(<<"feature_transformer", "2", "bias">>, <<BOTTLENECK>>),
       Param(<<"output_layers", "1", "weight">>, <<BOTTLENECK, BOTTLENECK>>),
       Param(<<"output_layers", "1", "bias">>, <<BOTTLENECK>>),
       Param(<<"output_layers", "3", "weight">>, <<1, BOTTLENECK>>),
       Param(<<"output_layers", "3", "bias">>, <<1>>) >>

\* param.numel()
RECURSIVE Numel(_)
Numel(shape) ==
    IF shape = <<>> THEN 1 ELSE shape[1] * Numel(Tail(shape))

\* pattern in name, on names split at their dots.
Contains(name, pattern) ==
    \E i \in 0..(Len(name) - Len(pattern)) :
        SubSeq(name, i + 1, i + Len(pattern)) = pattern

----------------------------------------------------------------------------
(* NNUE.forward.  A tensor of N rows is a sequence of N rows; a row of the *)
(* input is a feature vector (its support), a row of any later tensor is a *)
(* sequence of integers.  Parameter values are small integers, so that     *)
(* every sum is exact.                                                     *)

\* The sets of parameter values self.model may hold.
Models == {1, 2}

\* Linear layer l's weight[j][k] and bias[j] in model m; the layers are
\* numbered 1..4 in forward order.
Weight(m, l, j, k) == ((m * 5 + l * 3 + j * 7 + k * 11) % 3) - 1
Bias(m, l, j) == (m + l + j) % 2

\* The shape of layer l's weight: <<out_features, in_features>>.
WeightShape(in, hid, l) == named_parameters(in, hid)[2 * l - 1].shape

\* Row j of the first layer's weight times a feature vector.
RECURSIVE SparseDot(_, _, _)
SparseDot(m, j, x) ==
    IF x = {} THEN 0
    ELSE LET k == Min(x)
         IN  Weight(m, 1, j, k + 1) + SparseDot(m, j, x \ {k})

\* Row j of layer l's weight times the first k entries of a row v.
RECURSIVE Dot(_, _, _, _, _)
Dot(m, l, j, v, k) ==
    IF k = 0 THEN 0
    ELSE Weight(m, l, j, k) * v[k] + Dot(m, l, j, v, k - 1)

\* A row of n entries, entry j being f[j], as a sequence.
Row(f, n) == SubSeq(f, 1, n)

\* nn.Linear(input_size, hidden_size) on a batch of feature vectors.
FirstLinear(m, shape, X) ==
    [i \in DOMAIN X |->
        LET x == X[i]
        IN  Row([j \in 1..shape[1] |-> SparseDot(m, j, x) + Bias(m, 1, j)],
                shape[1])]

\* nn.Linear on a batch: layer l, of the given weight shape.
Linear(m, l, shape, X) ==
    [i \in DOMAIN X |->
        LET v == X[i]
        IN  Row([j \in 1..shape[1] |->
                    Dot(m, l, j, v, shape[2]) + Bias(m, l, j)],
                shape[1])]

\* nn.ReLU on a batch.
ReLU(X) ==
    [i \in DOMAIN X |->
        LET v == X[i]
        IN  Row([j \in 1..Len(v) |-> IF v[j] > 0 THEN v[j] ELSE 0], Len(v))]

\* nn.Tanh on a batch.  tanh(z) is kept as the term [tanh |-> z]: tanh is
\* applied entry by entry, and equal arguments give equal values.
Tanh(X) ==
    [i \in DOMAIN X |->
        LET v == X[i] IN Row([j \in 1..Len(v) |-> [tanh |-> v[j]]], Len(v))]

\* self.feature_transformer(x)
feature_transformer(m, in, hid, X) ==
    Linear(m, 2, WeightShape(in, hid, 2),
           ReLU(FirstLinear(m, WeightShape(in, hid, 1), X)))

\* self.output_layers(features)
output_layers(m, in, hid, F) ==
    Tanh(Linear(m, 4, WeightShape(in, hid, 4),
                ReLU(Linear(m, 3, WeightShape(in, hid, 3), ReLU(F)))))

\* A network with a layer that normalizes over the batch: every entry of
\* the transformed features is taken relative to the least one of its
\* column.
forward_BatchNormalized(m, in, hid, X) ==
    LET F == feature_transformer(m, in, hid, X)
        least == Row([j \in 1..BOTTLENECK |->
                         Min({F[r][j] : r \in DOMAIN X})], BOTTLENECK)
        G == [i \in DOMAIN X |->
                 LET v == F[i]
                 IN  Row([j \in 1..BOTTLENECK |-> v[j] - least[j]],
                         BOTTLENECK)]
    IN  output_layers(m, in, hid, G)

\* NNUE.forward(x)
forward(m, in, hid, X) ==
    output_layers(m, in, hid, feature_transformer(m, in, hid, X))

----------------------------------------------------------------------------
(* ModelEvaluator.benchmark_speed: the positions are evaluated one by one  *)
(* with evaluate_position, then in one call on the stacked vectors.        *)

\* The vector of the side to move, as position_to_features and the
\* selection on board.turn give it.
SideToMoveFeatures(p) ==
    SelectFeatures(p.turn, get_halfkp_features(p.board, WHITE),
                   get_halfkp_features(p.board, BLACK))

\* test_positions.append(board.fen()), up to num_positions times.
BenchGenerate ==
    /\ bpc = "generate"
    /\ Len(test_positions) < MaxBatch
    /\ \E b \in SampleBoards, t \in Colors :
          test_positions' = Append(test_positions, [board |-> b, turn |-> t])
    /\ UNCHANGED <<model, single_outs, features_batch, batch_outs, bpc>>
    /\ UNCHANGED <<eval_scale, net_input, net_out, evaluation, position,
                   item>>
    /\ UNCHANGED <<codec_vars, export_vars, run_vars>>

\* One self.evaluate_position(fen) of the first loop: the vector of the
\* side to move, unsqueezed to a batch of one row, goes through the model.
BenchSingleEval ==
    /\ bpc \in {"generate", "single"}
    /\ Len(single_outs) < Len(test_positions)
    /\ LET x == SideToMoveFeatures(test_positions[Len(single_outs) + 1])
           output == forward(model, input_size, hidden_size, <<x>>)
       IN  single_outs' = Append(single_outs, output[1][1])
    /\ bpc' = "single"
    /\ UNCHANGED <<model, test_positions, features_batch, batch_outs>>
    /\ UNCHANGED <<eval_scale, net_input, net_out, evaluation, position,
                   item>>
    /\ UNCHANGED <<codec_vars, export_vars, run_vars>>

\* One features_batch.append(features) of the second loop.
BenchAppendFeatures ==
    /\ bpc \in {"single", "batch"}
    /\ Len(single_outs) = Len(test_positions)
    /\ Len(features_batch) < Len(test_positions)
    /\ features_batch' =
          Append(features_batch,
                 SideToMoveFeatures(test_positions[Len(features_batch) + 1]))
    /\ bpc' = "batch"
    /\ UNCHANGED <<model, test_positions, single_outs, batch_outs>>
    /\ UNCHANGED <<eval_scale, net_input, net_out, evaluation, position,
                   item>>
    /\ UNCHANGED <<codec_vars, export_vars, run_vars>>

\* self.model(features_tensor) on the whole batch.
BenchBatchForward ==
    /\ bpc = "batch"
    /\ Len(features_batch) = Len(test_positions)
    /\ LET output == forward(model, input_size, hidden_size, features_batch)
       IN  batch_outs' = [i \in DOMAIN output |-> output[i][1]]
    /\ bpc' = "done"
    /\ UNCHANGED <<model, test_positions, single_outs, features_batch>>
    /\ UNCHANGED <<eval_scale, net_input, net_out, evaluation, position,
                   item>>
    /\ UNCHANGED <<codec_vars, export_vars, run_vars>>

----------------------------------------------------------------------------
(* NNUEExporter.                                                           *)

\* The architectures the model exports.
InputSizes == {768, 64}
HiddenSizes == {256, 512, 1024}

\* b'NNUE'
MAGIC == <<78, 78, 85, 69>>
\* 0x7AF32F16
VERSION_HASH == 2062757654
ARCH_HASH == 177

\* struct.pack('<I', v): four bytes, the least significant first.
PackU32_BigEndian(v) ==
    << (v \div 16777216) % 256, (v \div 65536) % 256, (v \div 256) % 256,
       v % 256 >>

PackU32(v) ==
    << v % 256, (v \div 256) % 256, (v \div 65536) % 256,
       (v \div 16777216) % 256 >>

\* str(n) for n >= 0, as character codes.
RECURSIVE FormatInt(_)
FormatInt(n) ==
    IF n < 10 THEN <<48 + n>> ELSE FormatInt(n \div 10) \o <<48 + (n % 10)>>

\* f"NNUE {input_size}->{hidden_size}->1", as character codes.
Description(in, hid) ==
    <<78, 78, 85, 69, 32>> \o FormatInt(in) \o <<45, 62>> \o FormatInt(hid)
        \o <<45, 62, 49>>

\* str.encode('utf-8') of characters below U+0800.
RECURSIVE EncodeUtf8(_)
EncodeUtf8(chars) ==
    IF chars = <<>> THEN <<>>
    ELSE (IF Head(chars) < 128 THEN <<Head(chars)>>
          ELSE <<192 + (Head(chars) \div 64), 128 + (Head(chars) % 64)>>)
         \o EncodeUtf8(Tail(chars))

NumHeaderFields == 5

\* The bytes of the k-th write of the header.
HeaderField(k, in, hid) ==
    LET description_bytes == EncodeUtf8(Description(in, hid))
    IN  CASE k = 1 -> MAGIC
          [] k = 2 -> PackU32(VERSION_HASH)
          [] k = 3 -> PackU32(ARCH_HASH)
          [] k = 4 -> PackU32(Len(description_bytes))
          [] k = 5 -> description_bytes

\* The values the entries of the model's tensors take: fractions below 1,
\* values that differ only in their fraction, a value beyond int8 and a
\* value beyond int16.
ParamValues ==
    {Rat(2, 5), Rat(-17, 10), Rat(6, 5), Rat(19, 10), Rat(401, 2),
     Rat(-160001, 4)}

\* The models exported: every weight holds one value, every bias another.
StateDicts == [weight : ParamValues, bias : ParamValues]

\* The value of the entries of the named parameter.
ValueOf(name) ==
    IF Contains(name, <<"weight">>) THEN state_dict.weight
    ELSE state_dict.bias

\* The integer a float-to-integer cast gives when it is representable:
\* the fraction is discarded.
TruncTowardZero_Floor(v) == v.n \div v.d

TruncTowardZero(v) ==
    IF v.n >= 0 THEN v.n \div v.d ELSE -((-v.n) \div v.d)

\* np.int8, np.int16, np.int32
DtypeBits(dtype) ==
    CASE dtype = "int8" -> 8 [] dtype = "int16" -> 16 [] dtype = "int32" -> 32

IntMax(bits) == 2 * (2 ^ (bits - 2) - 1) + 1
IntMin(bits) == -IntMax(bits) - 1

\* The low `bits` bits of n, read as a signed integer.
Wrap(n, bits) == ((n - IntMin(bits)) % (2 ^ bits)) + IntMin(bits)

\* The nearest representable integer.
Saturate(n, bits) ==
    IF n > IntMax(bits) THEN IntMax(bits)
    ELSE IF n < IntMin(bits) THEN IntMin(bits)
    ELSE n

\* param.data.cpu().numpy().astype(dtype) of one entry: the integers the
\* cast can give.  A value whose integer part the type cannot hold is
\* undefined behaviour of the cast: builds that convert and keep the low
\* bits wrap it, builds that narrow with saturating instructions clamp it.
Astype(v, dtype) ==
    LET n == TruncTowardZero(v)
        bits == DtypeBits(dtype)
    IN  IF IntMin(bits) <= n /\ n <= IntMax(bits)
        THEN {n}
        ELSE {Wrap(n, bits), Saturate(n, bits)}

\* A tensor written with astype(dtype).tobytes().
Section(param, dtype, itemsize) ==
    [name |-> param.name, dtype |-> dtype, itemsize |-> itemsize,
     numel |-> Numel(param.shape)]

\* What _write_feature_transformer writes for one named parameter.
FeatureTransformerWrite_WeightsInt8(param) ==
    IF Contains(param.name, <<"feature_transformer", "0", "weight">>)
    THEN <<Section(param, "int8", 1)>>
    ELSE IF Contains(param.name, <<"feature_transformer", "0", "bias">>)
    THEN <<Section(param, "int32", 4)>>
    ELSE <<>>

FeatureTransformerWrite(param) ==
    IF Contains(param.name, <<"feature_transformer", "0", "weight">>)
    THEN <<Section(param, "int16", 2)>>
    ELSE IF Contains(param.name, <<"feature_transformer", "0", "bias">>)
    THEN <<Section(param, "int32", 4)>>
    ELSE <<>>

\* What _write_output_layers writes for one named parameter.
OutputLayersWrite_AllInt32(param) ==
    IF Contains(param.name, <<"output_layers">>)
    THEN <<Section(param, "int32", 4)>>
    ELSE <<>>

OutputLayersWrite(param) ==
    IF Contains(param.name, <<"output_layers">>)
    THEN IF Contains(param.name, <<"weight">>)
         THEN <<Section(param, "int8", 1)>>
         ELSE IF Contains(param.name, <<"bias">>)
         THEN <<Section(param, "int32", 4)>>
         ELSE <<>>
    ELSE <<>>

\* The file at output_path: its header bytes, then its tensors, and for
\* every tensor the integer its entries were written as.
NoFile ==
    [exists |-> FALSE, bytes |-> <<>>, sections |-> <<>>, data |-> <<>>]
EmptyFile ==
    [exists |-> TRUE, bytes |-> <<>>, sections |-> <<>>, data |-> <<>>]

\* A model all of whose parameters are zero.
ZeroStateDict == [weight |-> Rat(0, 1), bias |-> Rat(0, 1)]

\* No export has happened.
ExportIdle ==
    /\ state_dict = ZeroStateDict
    /\ input_size = 768
    /\ hidden_size = 256
    /\ xpc = "idle"
    /\ xstep = 0
    /\ stream = "unopened"
    /\ dest = NoFile
    /\ write_failed = FALSE
    /\ xexc = "none"
    /\ stdout = <<>>

\* NNUE.py main, --export-nnue: the exporter is made and
\* export_stockfish_nnue(output_path) is called.
CallExport ==
    /\ xpc = "idle"
    /\ xpc' = "open"
    /\ stdout' = stdout \o <<"Exporting to NNUE format",
                             "Exporting to Stockfish NNUE format">>
    /\ UNCHANGED <<state_dict, input_size, hidden_size, xstep, stream, dest,
                   write_failed, xexc>>
    /\ UNCHANGED <<codec_vars, eval_vars, run_vars>>

\* open(output_path, 'wb'): the file is created empty, or open raises.
OpenFile(ok) ==
    /\ xpc = "open"
    /\ IF ok
       THEN /\ dest' = EmptyFile
            /\ stream' = "open"
            /\ xstep' = 1
            /\ xpc' = "header"
            /\ xexc' = "none"
       ELSE /\ xexc' = "OSError"
            /\ xpc' = "except"
            /\ UNCHANGED <<dest, stream, xstep>>
    /\ UNCHANGED <<state_dict, input_size, hidden_size, write_failed, stdout>>
    /\ UNCHANGED <<codec_vars, eval_vars, run_vars>>

\* A write that raises: the with block closes f and the exception reaches
\* the except clause; what was written before stays in the file.
FailedWrite_LeavesOpen ==
    /\ write_failed' = TRUE
    /\ xexc' = "OSError"
    /\ xpc' = "except"
    /\ UNCHANGED <<stream, dest, xstep>>

FailedWrite ==
    /\ stream' = "closed"
    /\ write_failed' = TRUE
    /\ xexc' = "OSError"
    /\ xpc' = "except"
    /\ UNCHANGED <<dest, xstep>>

\* One f.write of the header.
WriteHeader(ok) ==
    /\ xpc = "header"
    /\ IF ok
       THEN /\ dest' = [dest EXCEPT !.bytes =
                            @ \o HeaderField(xstep, input_size, hidden_size)]
            /\ IF xstep = NumHeaderFields
               THEN xstep' = 1 /\ xpc' = "feature_transformer"
               ELSE xstep' = xstep + 1 /\ xpc' = xpc
            /\ UNCHANGED <<stream, write_failed, xexc>>
       ELSE FailedWrite
    /\ UNCHANGED <<state_dict, input_size, hidden_size, stdout>>
    /\ UNCHANGED <<codec_vars, eval_vars, run_vars>>

\* One iteration of a loop over self.model.named_parameters() that writes
\* `written` (nothing, or one section) and goes on to `after` at its end.
WriteParam(ok, written, after) ==
    /\ IF written = <<>>
       THEN ok /\ UNCHANGED <<dest, stream, write_failed, xexc>>
                /\ IF xstep = Len(named_parameters(input_size, hidden_size))
                   THEN xstep' = 1 /\ xpc' = after
                   ELSE xstep' = xstep + 1 /\ xpc' = xpc
       ELSE IF ok
       THEN /\ \E d \in Astype(ValueOf(written[1].name),
                                written[1].dtype) :
                  dest' = [dest EXCEPT !.sections = @ \o written,
                                       !.data = @ \o <<d>>]
            /\ IF xstep = Len(named_parameters(input_size, hidden_size))
               THEN xstep' = 1 /\ xpc' = after
               ELSE xstep' = xstep + 1 /\ xpc' = xpc
            /\ UNCHANGED <<stream, write_failed, xexc>>
       ELSE FailedWrite
    /\ UNCHANGED <<state_dict, input_size, hidden_size, stdout>>
    /\ UNCHANGED <<codec_vars, eval_vars, run_vars>>

\* _write_feature_transformer(f), one named parameter at a time.
WriteFeatureTransformer(ok) ==
    /\ xpc = "feature_transformer"
    /\ WriteParam(ok,
           FeatureTransformerWrite(
               named_parameters(input_size, hidden_size)[xstep]),
           "output_layers")

\* _write_output_layers(f), one named parameter at a time.
WriteOutputLayers(ok) ==
    /\ xpc = "output_layers"
    /\ WriteParam(ok,
           OutputLayersWrite(
               named_parameters(input_size, hidden_size)[xstep]),
           "close")

\* The with block ends: f is closed, success is printed and the call
\* returns.
CloseFile ==
    /\ xpc = "close"
    /\ stream' = "closed"
    /\ stdout' = stdout \o <<"Successfully exported">>
    /\ xpc' = "returned"
    /\ UNCHANGED <<state_dict, input_size, hidden_size,
                   xstep, dest, write_failed, xexc>>
    /\ UNCHANGED <<codec_vars, eval_vars, run_vars>>

\* except Exception as e: the failure is printed, and the call returns.
ExceptHandler ==
    /\ xpc = "except"
    /\ stdout' = stdout \o <<"Export failed">>
    /\ xexc' = "none"
    /\ xpc' = "returned"
    /\ UNCHANGED <<state_dict, input_size, hidden_size, xstep, stream, dest,
                   write_failed>>
    /\ UNCHANGED <<codec_vars, eval_vars, run_vars>>

\* NNUE.py main after the call: an exception that reached it makes it print
\* the error and return 1; otherwise it reports completion and returns 0.
MainAfterExport ==
    /\ xpc = "returned"
    /\ IF xexc # "none"
       THEN /\ stdout' = stdout \o <<"Error during evaluation">>
            /\ xpc' = "main_return_1"
       ELSE /\ stdout' = stdout \o <<"Evaluation completed!">>
            /\ xpc' = "main_return_0"
    /\ xexc' = "none"
    /\ UNCHANGED <<state_dict, input_size, hidden_size, xstep, stream, dest,
                   write_failed>>
    /\ UNCHANGED <<codec_vars, eval_vars, run_vars>>

----------------------------------------------------------------------------
(* TrainingConfig and DatabaseConnection.load_training_data.               *)

\* TrainingConfig(): the fields the model reads, with their defaults.
\* input_size and hidden_size are the variables of those names.
TrainingConfig(cuda) ==
    [connection_string |-> "Server=localhost\\SQLEXPRESS;Database=ChessDatabase",
     batch_size |-> 8192,
     learning_rate |-> Rat(1, 1000),
     epochs |-> 1,
     validation_split |-> Rat(1, 10),
     max_positions |-> 1000000,
     device |-> IF cuda THEN "cuda" ELSE "cpu",
     save_frequency |-> 10,
     output_size |-> 1]

\* The rows of the query's result: cm.Fen, cm.Evaluation, cg.Result.
Fens == {"fen_a", "fen_b", "fen_c"}
RowEvaluations == {Rat(0, 1), Rat(150, 1)}
Rows == [fen : Fens, evaluation : RowEvaluations, result : {"1-0"}]

\* The sequences of at most n elements of S.
SeqsUpTo(S, n) == UNION {[1..k -> S] : k \in 0..n}

\* hashlib.md5(fen.encode()).hexdigest(): the sample FENs have different
\* digests.
Md5Hex(fen) == <<"md5", fen>>

\* No call of load_training_data has happened.
LoadIdle ==
    /\ rows = <<>>
    /\ positions = <<>>
    /\ seen_zobrist = {}
    /\ row_idx = 0
    /\ conn = "unopened"
    /\ lpc = "idle"
    /\ lexc = "none"

\* pyodbc.connect(self.connection_string) and conn.cursor(): the
\* connection is made, or connect raises.
Connect(ok) ==
    /\ lpc = "connect"
    /\ IF ok
       THEN conn' = "open" /\ lpc' = "execute" /\ lexc' = lexc
       ELSE conn' = conn /\ lpc' = "except" /\ lexc' = "pyodbc.Error"
    /\ UNCHANGED <<rows, positions, seen_zobrist, row_idx>>
    /\ UNCHANGED <<config, train_vars, main_vars>>
    /\ UNCHANGED <<codec_vars, eval_vars, export_vars>>

\* cursor.execute(query, ...) and cursor.fetchall(): the rows are there,
\* or one of the two calls raises.
Execute(ok) ==
    /\ lpc = "execute"
    /\ IF ok
       THEN /\ positions' = <<>>
            /\ seen_zobrist' = {}
            /\ row_idx' = 1
            /\ lpc' = IF rows = <<>> THEN "close" ELSE "loop"
            /\ lexc' = lexc
       ELSE /\ lpc' = "except"
            /\ lexc' = "pyodbc.Error"
            /\ UNCHANGED <<positions, seen_zobrist, row_idx>>
    /\ UNCHANGED <<rows, conn>>
    /\ UNCHANGED <<config, train_vars, main_vars>>
    /\ UNCHANGED <<codec_vars, eval_vars, export_vars>>

\* What one iteration of the loop leaves in positions and seen_zobrist.
AppendUnseen(row, pos, seen) ==
    LET fen_hash == Md5Hex(row.fen)
    IN  IF fen_hash \in seen
        THEN [positions |-> pos, seen_zobrist |-> seen, appended |-> FALSE]
        ELSE [positions |-> Append(pos, row),
              seen_zobrist |-> seen \cup {fen_hash},
              appended |-> TRUE]

\* if len(positions) >= config.max_positions: break
CapReached(pos, max_positions) == Len(pos) >= max_positions

\* One iteration of the loop over the rows: the row is unpacked, skipped
\* when its FEN was seen, appended otherwise, and the loop is left at the
\* cap; or handling the row raises.
ProcessRow(ok) ==
    /\ lpc = "loop"
    /\ IF ok
       THEN LET after == AppendUnseen(rows[row_idx], positions, seen_zobrist)
            IN  /\ positions' = after.positions
                /\ seen_zobrist' = after.seen_zobrist
                /\ row_idx' = row_idx + 1
                /\ lpc' = IF after.appended
                             /\ CapReached(after.positions,
                                           config.max_positions)
                          THEN "close"
                          ELSE IF row_idx = Len(rows) THEN "close"
                          ELSE "loop"
                /\ lexc' = lexc
       ELSE /\ lpc' = "except"
            /\ lexc' = "ValueError"
            /\ UNCHANGED <<positions, seen_zobrist, row_idx>>
    /\ UNCHANGED <<rows, conn>>
    /\ UNCHANGED <<config, train_vars, main_vars>>
    /\ UNCHANGED <<codec_vars, eval_vars, export_vars>>

\* conn.close() after the loop, and return positions.
CloseAndReturn ==
    /\ lpc = "close"
    /\ conn' = "closed"
    /\ lpc' = "returned"
    /\ UNCHANGED <<rows, positions, seen_zobrist, row_idx, lexc>>
    /\ UNCHANGED <<config, train_vars, main_vars>>
    /\ UNCHANGED <<codec_vars, eval_vars, export_vars>>

\* except Exception as e: the error is logged and raised again.
LogAndReraise ==
    /\ lpc = "except"
    /\ lpc' = "raised"
    /\ UNCHANGED <<rows, positions, seen_zobrist, row_idx, conn, lexc>>
    /\ UNCHANGED <<config, train_vars, main_vars>>
    /\ UNCHANGED <<codec_vars, eval_vars, export_vars>>

----------------------------------------------------------------------------
(* NNUETrainer.train.                                                      *)

\* The validation losses an epoch can end with.
Losses == {Rat(1, 4), Rat(1, 2), Rat(3, 4)}

\* float('inf'), and a loss that is a number.
Infinity == [inf |-> TRUE]
Finite(v) == [inf |-> FALSE, v |-> v]

\* val_loss < best_val_loss
Improves_OrEqual(loss, best) == best.inf \/ Leq(loss, best.v)

Improves(loss, best) == best.inf \/ (Leq(loss, best.v) /\ loss # best.v)

\* int(len(positions) * (1 - self.config.validation_split))
SplitIndex(n, validation_split) ==
    TruncTowardZero(Mul(Rat(n, 1),
                        Rat(validation_split.d - validation_split.n,
                            validation_split.d)))

\* len(DataLoader(dataset, batch_size=batch_size)): the batches one pass
\* over a dataset of n items yields; the last one may be short.
NumBatches(n, batch_size) == (n + batch_size - 1) \div batch_size

\* A checkpoint file that torch.save has not written, and one it has.
NoCheckpoint == [exists |-> FALSE]
Checkpoint(ep, state, loss) ==
    [exists |-> TRUE, epoch |-> ep, model_state_dict |-> state, loss |-> loss]

\* The writes of _export_nnue, in order: the magic, the version, the three
\* sizes, then every named parameter as float32.
ExportNnueWrites(in, hid, out) ==
    LET named == named_parameters(in, hid)
    IN  << [bytes |-> MAGIC, sections |-> <<>>],
           [bytes |-> PackU32(1), sections |-> <<>>],
           [bytes |-> PackU32(in), sections |-> <<>>],
           [bytes |-> PackU32(hid), sections |-> <<>>],
           [bytes |-> PackU32(out), sections |-> <<>>] >>
        \o [i \in 1..Len(named) |->
               [bytes |-> <<>>,
                sections |-> <<Section(named[i], "float32", 4)>>]]

\* The file after the first k of the writes; every tensor's entries are
\* those of the parameters `state`.
RECURSIVE Written(_, _, _)
Written(writes, k, state) ==
    IF k = 0 THEN EmptyFile
    ELSE LET before == Written(writes, k - 1, state)
         IN  [exists |-> TRUE,
              bytes |-> before.bytes \o writes[k].bytes,
              sections |-> before.sections \o writes[k].sections,
              data |-> before.data
                         \o [i \in 1..Len(writes[k].sections) |-> state]]

\* for epoch in range(self.config.epochs): where train goes when the loop
\* variable would become `next`, into the body or past the loop to the
\* final export.
RangeNext_OneEpoch(next, epochs) ==
    IF next < 1 THEN "train_epoch" ELSE "export"

RangeNext(next, epochs) ==
    IF next < epochs THEN "train_epoch" ELSE "export"

\* No call of train has happened.
TrainIdle ==
    /\ tpc = "idle"
    /\ train_positions = <<>>
    /\ val_positions = <<>>
    /\ epoch = 0
    /\ model_state = 0
    /\ val_loss = Rat(0, 1)
    /\ best_val_loss = Infinity
    /\ val_history = <<>>
    /\ best_pth = NoCheckpoint
    /\ epoch_pths = {}
    /\ export_attempts = <<>>
    /\ final_nnue = NoFile
    /\ texc = "none"

\* train is called: it makes the DatabaseConnection and calls
\* load_training_data.
TrainStart ==
    /\ tpc = "idle"
    /\ lpc = "idle"
    /\ tpc' = "load"
    /\ lpc' = "connect"
    /\ UNCHANGED <<rows, positions, seen_zobrist, row_idx, conn, lexc>>
    /\ UNCHANGED <<train_positions, val_positions, epoch, model_state, val_loss,
                   best_val_loss, val_history, best_pth, epoch_pths,
                   export_attempts, final_nnue, texc>>
    /\ UNCHANGED <<config, main_vars>>
    /\ UNCHANGED <<codec_vars, eval_vars, export_vars>>

\* load_training_data has ended.  Its exception is train's; with no
\* position train logs an error and returns; otherwise the positions are
\* split, the loaders, the model and the optimizer are made and the loop
\* over the epochs begins.
SplitData ==
    /\ tpc = "load"
    /\ lpc \in {"returned", "raised"}
    /\ IF lpc = "raised"
       THEN /\ tpc' = "raised"
            /\ texc' = lexc
            /\ UNCHANGED <<train_positions, val_positions, epoch,
                           best_val_loss>>
       ELSE IF positions = <<>>
       THEN /\ tpc' = "returned"
            /\ UNCHANGED <<train_positions, val_positions, epoch,
                           best_val_loss, texc>>
       ELSE LET split_idx ==
                    SplitIndex(Len(positions), config.validation_split)
            IN  /\ train_positions' = SubSeq(positions, 1, split_idx)
                /\ val_positions' =
                       SubSeq(positions, split_idx + 1, Len(positions))
                /\ best_val_loss' = Infinity
                /\ epoch' = 0
                /\ tpc' = RangeNext(0, config.epochs)
                /\ texc' = texc
    /\ UNCHANGED <<model_state, val_loss, val_history, best_pth, epoch_pths,
                   export_attempts, final_nnue>>
    /\ UNCHANGED <<config, load_vars, main_vars>>
    /\ UNCHANGED <<codec_vars, eval_vars, export_vars>>

\* _train_epoch: one pass over train_loader changes the parameters, and
\* total_loss / num_batches raises when the loader yielded no batch.
TrainEpoch ==
    /\ tpc = "train_epoch"
    /\ IF NumBatches(Len(train_positions), config.batch_size) = 0
       THEN /\ tpc' = "raised"
            /\ texc' = "ZeroDivisionError"
            /\ model_state' = model_state
       ELSE /\ model_state' = model_state + 1
            /\ tpc' = "validate"
            /\ texc' = texc
    /\ UNCHANGED <<train_positions, val_positions, epoch, val_loss,
                   best_val_loss, val_history, best_pth, epoch_pths,
                   export_attempts, final_nnue>>
    /\ UNCHANGED <<config, load_vars, main_vars>>
    /\ UNCHANGED <<codec_vars, eval_vars, export_vars>>

\* _validate: one pass over val_loader gives the epoch's validation loss,
\* which is logged, and total_loss / num_batches raises when the loader
\* yielded no batch.
Validate ==
    /\ tpc = "validate"
    /\ IF NumBatches(Len(val_positions), config.batch_size) = 0
       THEN /\ tpc' = "raised"
            /\ texc' = "ZeroDivisionError"
            /\ UNCHANGED <<val_loss, val_history>>
       ELSE /\ \E loss \in Losses :
                  /\ val_loss' = loss
                  /\ val_history' = Append(val_history, loss)
            /\ tpc' = "save"
            /\ texc' = texc
    /\ UNCHANGED <<train_positions, val_positions, epoch, model_state,
                   best_val_loss, best_pth, epoch_pths, export_attempts,
                   final_nnue>>
    /\ UNCHANGED <<config, load_vars, main_vars>>
    /\ UNCHANGED <<codec_vars, eval_vars, export_vars>>

\* The end of the loop's body: the best model is saved when the loss
\* improved, the regular checkpoint when the epoch's number is a multiple
\* of save_frequency, and the loop goes on or ends.  From here on `epoch`
\* is the value the loop variable takes next.
SaveModels ==
    /\ tpc = "save"
    /\ IF Improves(val_loss, best_val_loss)
       THEN /\ best_val_loss' = Finite(val_loss)
            /\ best_pth' = Checkpoint(epoch, model_state, val_loss)
       ELSE UNCHANGED <<best_val_loss, best_pth>>
    /\ IF (epoch + 1) % config.save_frequency = 0
       THEN epoch_pths' =
                epoch_pths \cup
                    {[suffix |-> epoch + 1,
                      file |-> Checkpoint(epoch, model_state, val_loss)]}
       ELSE epoch_pths' = epoch_pths
    /\ epoch' = epoch + 1
    /\ tpc' = RangeNext(epoch + 1, config.epochs)
    /\ UNCHANGED <<train_positions, val_positions, model_state, val_loss,
                   val_history, export_attempts, final_nnue, texc>>
    /\ UNCHANGED <<config, load_vars, main_vars>>
    /\ UNCHANGED <<codec_vars, eval_vars, export_vars>>

\* self._export_nnue(model, "final"): open raises, or the file is made
\* and the first k writes succeed; when k is not all of them the next one
\* raised.  The exception is logged inside _export_nnue, and train returns.
ExportNnue ==
    /\ tpc = "export"
    /\ LET writes == ExportNnueWrites(input_size, hidden_size,
                                      config.output_size)
       IN  \E opened \in BOOLEAN :
           \E k \in 0..Len(writes) :
              /\ opened \/ k = 0
              /\ final_nnue' = IF opened THEN Written(writes, k, model_state)
                               ELSE final_nnue
              /\ export_attempts' =
                     Append(export_attempts,
                            [params |-> model_state, epochs_done |-> epoch,
                             ok |-> opened /\ k = Len(writes)])
    /\ tpc' = "returned"
    /\ UNCHANGED <<train_positions, val_positions, epoch, model_state, val_loss,
                   best_val_loss, val_history, best_pth, epoch_pths, texc>>
    /\ UNCHANGED <<config, load_vars, main_vars>>
    /\ UNCHANGED <<codec_vars, eval_vars, export_vars>>

----------------------------------------------------------------------------
(* training_config.py and the scripts that validate a configuration.       *)

\* create_training_config() and the other presets.  The fields left out
\* (hidden_size, num_workers, model_name among them) are read neither by
\* validate_config nor by the scripts before they call train.
create_training_config(cuda) ==
    [TrainingConfig(cuda) EXCEPT !.epochs = 100]

create_quick_test_config(cuda) ==
    [create_training_config(cuda) EXCEPT !.max_positions = 100000,
                                          !.epochs = 20,
                                          !.batch_size = 4096]

create_large_training_config(cuda) ==
    [create_training_config(cuda) EXCEPT !.max_positions = 5000000,
                                          !.epochs = 200,
                                          !.batch_size = 16384,
                                          !.learning_rate = Rat(1, 2000)]

create_cpu_training_config(cuda) ==
    [create_training_config(cuda) EXCEPT !.device = "cpu",
                                          !.batch_size = 1024,
                                          !.max_positions = 500000]

\* The keys of TRAINING_PRESETS.
TRAINING_PRESETS == {"default", "quick_test", "large_scale", "cpu_only"}

\* get_training_config(preset): an unknown preset gives the default one.
get_training_config(preset, cuda) ==
    CASE preset = "quick_test" -> create_quick_test_config(cuda)
      [] preset = "large_scale" -> create_large_training_config(cuda)
      [] preset = "cpu_only" -> create_cpu_training_config(cuda)
      [] OTHER -> create_training_config(cuda)

\* quick_start.py, create_quick_config()
create_quick_config(cuda) ==
    [TrainingConfig(cuda) EXCEPT !.max_positions = 100000,
                                  !.epochs = 20,
                                  !.batch_size = 4096,
                                  !.learning_rate = Rat(1, 1000),
                                  !.save_frequency = 5,
                                  !.validation_split = Rat(3, 20)]

\* nnue_validation.py, validate_small_config: the configuration it makes.
small_config(cuda) ==
    [TrainingConfig(cuda) EXCEPT !.max_positions = 10000,
                                  !.epochs = 5,
                                  !.batch_size = 1024,
                                  !.save_frequency = 2]

\* a < b for rationals.
Less(a, b) == a.n * b.d < b.n * a.d

\* validate_config's check of the device: with 'cuda' and no CUDA it
\* prints a warning and adds nothing.  torch is imported when
\* training_config is, so the import inside the check cannot fail.
DeviceIssues_Strict(device, cuda) ==
    IF device = "cuda" /\ ~cuda THEN <<"CUDA not available">> ELSE <<>>

DeviceIssues(device, cuda) == <<>>

\* validate_config(config): the issues, in the order they are appended.
validate_config(c, cuda) ==
    (IF c.connection_string = ""
     THEN <<"Database connection string is required">> ELSE <<>>)
    \o (IF c.batch_size < 64 \/ c.batch_size > 32768
        THEN <<"Batch size may be too small or large">> ELSE <<>>)
    \o (IF Less(c.learning_rate, Rat(1, 1000000))
           \/ Less(Rat(1, 10), c.learning_rate)
        THEN <<"Learning rate may be too small or large">> ELSE <<>>)
    \o (IF c.max_positions < 1000
        THEN <<"Max positions may be too small for effective training">>
        ELSE <<>>)
    \o DeviceIssues(c.device, cuda)

\* The command lines of NNUE.py and nnue_main.py: the preset's name and
\* the overrides.  An option that is not given is None, which the scripts
\* treat as they treat 0 and the empty string: the preset's value stays.
Overrides ==
    [config : TRAINING_PRESETS \cup {"unknown"},
     batch_size : {0, 32, 4096},
     learning_rate : {Rat(0, 1), Rat(1, 5)},
     epochs : {0, 3},
     max_positions : {0, 999},
     device : {"", "cpu", "cuda"}]

NoOverrides ==
    [config |-> "default", batch_size |-> 0, learning_rate |-> Rat(0, 1),
     epochs |-> 0, max_positions |-> 0, device |-> ""]

\* if args.batch_size: config.batch_size = args.batch_size, and so on.
ApplyOverrides(c, args) ==
    [c EXCEPT !.batch_size = IF args.batch_size # 0 THEN args.batch_size
                             ELSE @,
              !.learning_rate = IF args.learning_rate.n # 0
                                THEN args.learning_rate ELSE @,
              !.epochs = IF args.epochs # 0 THEN args.epochs ELSE @,
              !.max_positions = IF args.max_positions # 0
                                THEN args.max_positions ELSE @,
              !.device = IF args.device # "" THEN args.device ELSE @]

\* The scripts that call validate_config, and a caller that hands it a
\* configuration of its own.
TrainingScripts == {"NNUE.py", "nnue_main.py"}
Entries ==
    TrainingScripts \cup {"quick_start.py", "nnue_validation.py", "caller"}

\* The configurations a caller hands to validate_config.
CallerConfigs ==
    {[TrainingConfig(cuda) EXCEPT !.connection_string = cs,
                                   !.batch_size = b,
                                   !.learning_rate = lr,
                                   !.max_positions = m] :
        cuda \in BOOLEAN,
        cs \in {"", TrainingConfig(TRUE).connection_string},
        b \in {63, 64, 32768, 32769},
        lr \in {Rat(1, 2000000), Rat(1, 1000000), Rat(1, 10), Rat(1, 5)},
        m \in {999, 1000}}

\* No script is running.
MainIdle ==
    /\ entry = "none"
    /\ overrides = NoOverrides
    /\ answer = ""
    /\ cuda_available = FALSE
    /\ mpc = "idle"
    /\ issues = <<>>
    /\ rc = -1

\* Neither load_training_data nor train nor a script is running.
RunIdle ==
    /\ config = TrainingConfig(FALSE)
    /\ LoadIdle
    /\ TrainIdle
    /\ MainIdle

\* The script makes its configuration: the preset with the command line's
\* overrides, the quick one, or the small one; a caller has its own.
Configure ==
    /\ mpc = "start"
    /\ config' =
          CASE entry \in TrainingScripts ->
                 ApplyOverrides(
                     get_training_config(overrides.config, cuda_available),
                     overrides)
            [] entry = "quick_start.py" -> create_quick_config(cuda_available)
            [] entry = "nnue_validation.py" -> small_config(cuda_available)
            [] OTHER -> config
    /\ mpc' = "validate"
    /\ UNCHANGED <<entry, overrides, answer, cuda_available, issues, rc>>
    /\ UNCHANGED <<load_vars, train_vars>>
    /\ UNCHANGED <<codec_vars, eval_vars, export_vars>>

\* issues = validate_config(config)
ValidateConfig ==
    /\ mpc = "validate"
    /\ issues' = validate_config(config, cuda_available)
    /\ mpc' = "validated"
    /\ UNCHANGED <<entry, overrides, answer, cuda_available, rc>>
    /\ UNCHANGED <<config, load_vars, train_vars>>
    /\ UNCHANGED <<codec_vars, eval_vars, export_vars>>

\* Whether the script returns when validate_config reported issues:
\* NNUE.py and nnue_main.py print them and return 1, quick_start.py
\* prints them and goes on.
ReturnsOnIssues_Never(script, found) == FALSE

ReturnsOnIssues(script, found) ==
    script \in TrainingScripts /\ found # <<>>

\* What the script does with the issues: it returns, or it makes the
\* NNUETrainer and calls train, quick_start.py after the user's 'y'.
\* What train then does is the training specification's.
AfterValidation ==
    /\ mpc = "validated"
    /\ IF ReturnsOnIssues(entry, issues)
       THEN /\ rc' = 1
            /\ mpc' = "returned"
            /\ UNCHANGED <<tpc, lpc>>
       ELSE IF entry \in TrainingScripts
               \/ (entry = "quick_start.py" /\ answer = "y")
       THEN /\ tpc' = "load"
            /\ lpc' = "connect"
            /\ mpc' = "train"
            /\ rc' = rc
       ELSE /\ rc' = 0
            /\ mpc' = "returned"
            /\ UNCHANGED <<tpc, lpc>>
    /\ UNCHANGED <<entry, overrides, answer, cuda_available, issues>>
    /\ UNCHANGED <<rows, positions, seen_zobrist, row_idx, conn, lexc>>
    /\ UNCHANGED <<train_positions, val_positions, epoch, model_state, val_loss,
                   best_val_loss, val_history, best_pth, epoch_pths,
                   export_attempts, final_nnue, texc>>
    /\ UNCHANGED config
    /\ UNCHANGED <<codec_vars, eval_vars, export_vars>>

----------------------------------------------------------------------------
(* The codec on its own: boards are set up and encoded.                    *)

CodecInit ==
    /\ board = EmptyBoard
    /\ turn = WHITE
    /\ call = "none"
    /\ pc = "setup"
    /\ color = WHITE
    /\ king_square = None
    /\ todo = {}
    /\ features = {}
    /\ white_features = {}
    /\ black_features = {}
    /\ exc = "none"
    /\ EvalIdle
    /\ ExportIdle
    /\ RunIdle

CodecNext ==
    \/ \E square \in Squares, piece_type \in PieceTypes, c \in Colors :
          PlacePiece(square, piece_type, c)
    \/ LoadStartPosition
    \/ PositionToFeatures
    \/ PositionToFeaturesAgain
    \/ GetHalfKPStep
    \/ ReturnWhite
    \/ ReturnBlack

CodecSpec == CodecInit /\ [][CodecNext]_vars

----------------------------------------------------------------------------
(* The codec's claims.                                                     *)

Encoded == pc = "encoded"

\* C1: for every perspective whose king is on the board, the number of set
\* bits of its vector equals the number of non-king pieces on the board.
C1_SetBitsEqualNonKingPieces ==
    Encoded =>
        /\ king(board, WHITE) # None =>
              Cardinality(white_features) = NonKingCount(board)
        /\ king(board, BLACK) # None =>
              Cardinality(black_features) = NonKingCount(board)

\* C2: the standard starting position encodes to exactly 30 set bits in the
\* white-perspective vector and exactly 30 in the black-perspective vector.
C2_StartPositionHas30Bits ==
    (Encoded /\ board = StartBoard) =>
        /\ Cardinality(white_features) = 30
        /\ Cardinality(black_features) = 30

\* The color-reversed, rank-flipped image of a board.
MirrorImage(b) ==
    [s \in {square_mirror(q) : q \in DOMAIN b} |->
        Piece(b[square_mirror(s)].piece_type, ~b[square_mirror(s)].color)]

BothKings(b) == king(b, WHITE) # None /\ king(b, BLACK) # None

\* C3: with both kings on the board, the white-perspective vector of a
\* position is the black-perspective vector of its color-reversed,
\* rank-flipped image, and the black-perspective vector is the image's
\* white-perspective vector.
C3_MirroringInvariant ==
    (Encoded /\ BothKings(board)) =>
        /\ white_features = get_halfkp_features(MirrorImage(board), BLACK)
        /\ black_features = get_halfkp_features(MirrorImage(board), WHITE)

C3_Witness ==
    /\ Encoded
    /\ BothKings(board)
    /\ white_features # {}
    /\ black_features # {}
    /\ white_features # black_features

\* The indices of the non-king pieces that fall in the vector.
ExpectedFeatures(b, c) ==
    {i \in {FeatureIdx(PerspectiveSquare(c, king(b, c)),
                       IF b[s].color = c THEN 0 ELSE 1,
                       piece_to_index[b[s].piece_type],
                       PerspectiveSquare(c, s)) : s \in NonKingSquares(b)} :
        0 <= i /\ i < FEATURE_SIZE}

\* C10: no encoding raises; a perspective whose king is not on the board
\* gets the all-zero vector, and the other perspective is encoded as usual.
C10_MissingKingIsZeroVector ==
    /\ exc = "none"
    /\ Encoded =>
          /\ king(board, WHITE) = None => white_features = {}
          /\ king(board, BLACK) = None => black_features = {}
          /\ (king(board, WHITE) = None /\ king(board, BLACK) # None) =>
                black_features = ExpectedFeatures(board, BLACK)
          /\ (king(board, BLACK) = None /\ king(board, WHITE) # None) =>
                white_features = ExpectedFeatures(board, WHITE)

C10_Witness ==
    /\ Encoded
    /\ king(board, WHITE) = None
    /\ white_features = {}
    /\ NonKingSquares(board) # {}
    /\ black_features # {}

\* The perspective being encoded has located its king and is in its loop.
InLoop == pc = "loop" /\ king_square # None

\* C11: whatever square the perspective's king is on, the index computed
\* for every non-king piece of the board lies in 0..767.
C11_FeatureIndexInRange ==
    InLoop =>
        \A s \in NonKingSquares(board) :
            /\ 0 <= PieceIndex(board, color, king_square, s)
            /\ PieceIndex(board, color, king_square, s) <= FEATURE_SIZE - 1

\* The positions of the vector: features = np.zeros(768).
FeaturePositions == 0..(FEATURE_SIZE - 1)

\* The non-king pieces the loop has visited so far.
Visited == NonKingSquares(board) \ todo

\* C12: no encoding raises, only positions 0..767 of a vector are ever
\* written, and the iteration that visits a piece whose index is outside
\* 0..767 leaves the vector exactly as it was.
C12_OutOfRangeDropped ==
    /\ [](/\ exc = "none"
          /\ features \subseteq FeaturePositions
          /\ white_features \subseteq FeaturePositions
          /\ black_features \subseteq FeaturePositions)
    /\ [][\A s \in todo \ todo' :
            (/\ InLoop
             /\ s \in NonKingSquares(board)
             /\ PieceIndex(board, color, king_square, s)
                    \notin FeaturePositions)
            => features' = features]_vars

\* A piece has been dropped and another one kept.
C12_Witness ==
    /\ InLoop
    /\ features # {}
    /\ \E s \in Visited :
          PieceIndex(board, color, king_square, s) \notin FeaturePositions

\* C13: within one perspective's encoding, two distinct non-king pieces of
\* the board never compute the same index, every set bit is the index of a
\* visited non-king piece (no king sets a bit), and so there are never
\* more set bits than visited non-king pieces.
C13_OneBitPerPiece ==
    InLoop =>
        /\ \A s1, s2 \in NonKingSquares(board) :
              s1 # s2 =>
                  PieceIndex(board, color, king_square, s1)
                      # PieceIndex(board, color, king_square, s2)
        /\ features \subseteq
              {PieceIndex(board, color, king_square, s) : s \in Visited}
        /\ Cardinality(features) <= Cardinality(Visited)

\* Both kings and two non-king pieces have been visited, and each of the
\* two pieces has set its own bit.
C13_Witness ==
    /\ InLoop
    /\ todo = {}
    /\ BothKings(board)
    /\ Cardinality(Visited) = 2
    /\ Cardinality(features) = 2

\* C22: the pair position_to_features returns is a function of the piece
\* placement alone: whichever order the loop visited the pieces in, and
\* whether or not the instance has encoded before, each vector is the one
\* _get_halfkp_features gives for that board and perspective.
C22_EncodingDeterministic ==
    Encoded =>
        /\ white_features = get_halfkp_features(board, WHITE)
        /\ black_features = get_halfkp_features(board, BLACK)

\* A second call on a board with both kings and several other pieces has
\* returned, and neither vector is empty.
C22_Witness ==
    /\ Encoded
    /\ call = "position_to_features_again"
    /\ BothKings(board)
    /\ NonKingCount(board) >= 2
    /\ white_features # {}
    /\ black_features # {}

----------------------------------------------------------------------------
(* Evaluation and training targets: a position is evaluated, and a dataset *)
(* tuple of the same position is turned into a training item.              *)

EvalInit ==
    /\ board \in SampleBoards
    /\ turn \in Colors
    /\ call = "none"
    /\ pc = "setup"
    /\ color = WHITE
    /\ king_square = None
    /\ todo = {}
    /\ features = {}
    /\ white_features = {}
    /\ black_features = {}
    /\ exc = "none"
    /\ eval_scale \in EvalScales
    /\ net_input = {}
    /\ net_out = Rat(0, 1)
    /\ evaluation = Rat(0, 1)
    /\ position = NoPosition
    /\ item = NoItem
    /\ BenchIdle
    /\ state_dict = ZeroStateDict
    /\ input_size \in InputSizes
    /\ hidden_size = 256
    /\ xpc = "idle"
    /\ xstep = 0
    /\ stream = "unopened"
    /\ dest = NoFile
    /\ write_failed = FALSE
    /\ xexc = "none"
    /\ stdout = <<>>
    /\ RunIdle

EvalNext ==
    \/ EvaluatePosition
    \/ EvaluateReturn
    \/ GetItem
    \/ GetItemReturn
    \/ GetHalfKPStep
    \/ ReturnWhite
    \/ ReturnBlack

EvalSpec == EvalInit /\ [][EvalNext]_vars

\* C4: evaluate_position returns the network's output on the side to move's
\* own vector, times eval_scale, negated when black is to move.
C4_EvaluatePositionSign ==
    (pc = "returned" /\ call = "evaluate_position") =>
        /\ net_input = (IF turn = WHITE THEN white_features
                                          ELSE black_features)
        /\ turn = WHITE => evaluation = Mul(net_out, eval_scale)
        /\ turn = BLACK => evaluation = Neg(Mul(net_out, eval_scale))

C4_Witness ==
    /\ pc = "returned"
    /\ call = "evaluate_position"
    /\ turn = BLACK
    /\ net_out.n > 0
    /\ evaluation.n < 0
    /\ white_features # black_features

\* C5: a score returned by evaluate_position for a bounded scalar x, fed
\* back as the evaluation of a dataset tuple of the same position, gives
\* the training target x, whichever side is to move.
C5_ScoreRoundTrip ==
    (pc = "returned" /\ call = "getitem"
        /\ position.source = "evaluate_position") =>
        item.evaluation = net_out

C5_Witness ==
    /\ pc = "returned"
    /\ call = "getitem"
    /\ position.source = "evaluate_position"
    /\ turn = BLACK
    /\ net_out.n # 0
    /\ eval_scale = Rat(1, 2)

\* s * evaluation / eval_scale, with s = +1 for white to move and -1 for
\* black to move.
SignedScaled(e, scale, t) ==
    Rat((IF t = WHITE THEN 1 ELSE -1) * e.n * scale.d, e.d * scale.n)

\* C14: the training target of a dataset tuple is s * evaluation /
\* eval_scale where that lies in [-1, 1], -1 below and 1 above, so it lies
\* in [-1, 1] for every stored evaluation, those of a magnitude above
\* eval_scale included.
C14_TargetClipped ==
    (pc = "returned" /\ call = "getitem") =>
        LET x == SignedScaled(position.evaluation, eval_scale, turn)
            y == item.evaluation
        IN  /\ -y.d <= y.n
            /\ y.n <= y.d
            /\ (x.n < -x.d) => y = Rat(-1, 1)
            /\ (x.n > x.d) => y = Rat(1, 1)
            /\ (-x.d <= x.n /\ x.n <= x.d) => y = x

\* The largest admitted evaluation, with black to move, has been clipped
\* to -1.
C14_Witness ==
    /\ pc = "returned"
    /\ call = "getitem"
    /\ turn = BLACK
    /\ eval_scale = Rat(361, 1)
    /\ position.evaluation = Rat(3610, 1)
    /\ item.evaluation = Rat(-1, 1)

\* C21: evaluate_position on a model whose input_size is not the 768 of
\* the encoder's vectors raises the shape error of the first layer to its
\* caller and never returns a score; with input_size 768 it never raises.
C21_ShapeMismatchRaises ==
    /\ (call = "evaluate_position" /\ input_size # 768) =>
          /\ pc # "returned"
          /\ evaluation = Rat(0, 1)
          /\ net_out = Rat(0, 1)
          /\ pc = "raised" => exc = "RuntimeError"
          /\ pc # "raised" => exc = "none"
    /\ input_size = 768 => exc = "none"

\* The vector of a position has reached a network of input_size 64 and the
\* call has raised.
C21_Witness ==
    /\ call = "evaluate_position"
    /\ input_size = 64
    /\ net_input # {}
    /\ pc = "raised"
    /\ exc = "RuntimeError"

----------------------------------------------------------------------------
(* The benchmark on its own: a model is loaded and benchmark_speed is      *)
(* called with some number of positions.                                   *)

BenchInit ==
    /\ board = EmptyBoard
    /\ turn = WHITE
    /\ call = "none"
    /\ pc = "setup"
    /\ color = WHITE
    /\ king_square = None
    /\ todo = {}
    /\ features = {}
    /\ white_features = {}
    /\ black_features = {}
    /\ exc = "none"
    /\ eval_scale = Rat(361, 1)
    /\ net_input = {}
    /\ net_out = Rat(0, 1)
    /\ evaluation = Rat(0, 1)
    /\ position = NoPosition
    /\ item = NoItem
    /\ model \in Models
    /\ test_positions = <<>>
    /\ single_outs = <<>>
    /\ features_batch = <<>>
    /\ batch_outs = <<>>
    /\ bpc = "generate"
    /\ state_dict = ZeroStateDict
    /\ input_size = FEATURE_SIZE
    /\ hidden_size = BenchHidden
    /\ xpc = "idle"
    /\ xstep = 0
    /\ stream = "unopened"
    /\ dest = NoFile
    /\ write_failed = FALSE
    /\ xexc = "none"
    /\ stdout = <<>>
    /\ RunIdle

BenchNext ==
    \/ BenchGenerate
    \/ BenchSingleEval
    \/ BenchAppendFeatures
    \/ BenchBatchForward

BenchSpec == BenchInit /\ [][BenchNext]_vars

----------------------------------------------------------------------------
(* Export: a network of some architecture is exported by NNUE.py main,     *)
(* and any write may fail.                                                 *)

ExportInit ==
    /\ board = EmptyBoard
    /\ turn = WHITE
    /\ call = "none"
    /\ pc = "setup"
    /\ color = WHITE
    /\ king_square = None
    /\ todo = {}
    /\ features = {}
    /\ white_features = {}
    /\ black_features = {}
    /\ exc = "none"
    /\ EvalIdle
    /\ state_dict \in StateDicts
    /\ input_size \in InputSizes
    /\ hidden_size \in HiddenSizes
    /\ xpc = "idle"
    /\ xstep = 0
    /\ stream = "unopened"
    /\ dest = NoFile
    /\ write_failed = FALSE
    /\ xexc = "none"
    /\ stdout = <<>>
    /\ RunIdle

ExportNext ==
    \/ CallExport
    \/ \E ok \in BOOLEAN : OpenFile(ok)
    \/ \E ok \in BOOLEAN : WriteHeader(ok)
    \/ \E ok \in BOOLEAN : WriteFeatureTransformer(ok)
    \/ \E ok \in BOOLEAN : WriteOutputLayers(ok)
    \/ CloseFile
    \/ ExceptHandler
    \/ MainAfterExport

ExportSpec == ExportInit /\ [][ExportNext]_vars

Printed(message) == \E i \in 1..Len(stdout) : stdout[i] = message

\* C6: an export one of whose writes failed never returns normally to its
\* caller, which so never goes on to report completion.
C6_WriteFailurePropagates ==
    write_failed =>
        /\ xpc = "returned" => xexc # "none"
        /\ ~Printed("Evaluation completed!")

\* The sections a complete export of the architecture holds: those the two
\* writers emit when no write fails.
RECURSIVE WrittenBy(_, _)
WrittenBy(params, k) ==
    IF k > Len(params) THEN <<>>
    ELSE FeatureTransformerWrite(params[k]) \o WrittenBy(params, k + 1)

RECURSIVE WrittenByOutput(_, _)
WrittenByOutput(params, k) ==
    IF k > Len(params) THEN <<>>
    ELSE OutputLayersWrite(params[k]) \o WrittenByOutput(params, k + 1)

HeaderLength(in, hid) == 16 + Len(EncodeUtf8(Description(in, hid)))

CompleteArtifact(file) ==
    /\ file.exists
    /\ Len(file.bytes) = HeaderLength(input_size, hidden_size)
    /\ file.sections =
          WrittenBy(named_parameters(input_size, hidden_size), 1)
            \o WrittenByOutput(named_parameters(input_size, hidden_size), 1)

ExportEnded == xpc \in {"returned", "main_return_0", "main_return_1"}

\* C7: once the export has ended, the destination holds a complete artifact
\* or no file at all.
C7_ExportIsAtomic ==
    ExportEnded => (~dest.exists \/ CompleteArtifact(dest))

\* The narrowed width of a parameter: 16 bits for feature-transformer
\* weights, 8 bits for output-stage weights, 32 bits for biases.
NarrowedSize(param) ==
    Numel(param.shape) *
        (IF Contains(param.name, <<"bias">>) THEN 4
         ELSE IF Contains(param.name, <<"feature_transformer">>) THEN 2
         ELSE 1)

RECURSIVE SumOver(_, _)
SumOver(seq, k) ==
    IF k > Len(seq) THEN 0 ELSE seq[k] + SumOver(seq, k + 1)

SectionBytes(file) ==
    SumOver([k \in 1..Len(file.sections) |->
                file.sections[k].numel * file.sections[k].itemsize], 1)

\* C8: a blob written without a failure holds every parameter tensor of the
\* network exactly once, so its length after the header is the sum of the
\* narrowed sizes of all eight tensors.
C8_AllTensorsExported ==
    (ExportEnded /\ dest.exists /\ ~write_failed) =>
        LET params == named_parameters(input_size, hidden_size)
        IN  /\ \A k \in 1..Len(params) :
                  Cardinality({j \in 1..Len(dest.sections) :
                      dest.sections[j].name = params[k].name}) = 1
            /\ SectionBytes(dest) =
                  SumOver([k \in 1..Len(params) |-> NarrowedSize(params[k])],
                          1)

\* The reader's side of the header: little-endian 32-bit fields.
UnpackU32(bytes) ==
    bytes[1] + 256 * bytes[2] + 65536 * bytes[3] + 16777216 * bytes[4]

ReadMagic(bytes) == SubSeq(bytes, 1, 4)
ReadVersion(bytes) == UnpackU32(SubSeq(bytes, 5, 8))
ReadArchitecture(bytes) == UnpackU32(SubSeq(bytes, 9, 12))
ReadLength(bytes) == UnpackU32(SubSeq(bytes, 13, 16))
ReadDescription(bytes) == SubSeq(bytes, 17, 16 + ReadLength(bytes))

HeaderWritten ==
    \/ xpc \in {"feature_transformer", "output_layers", "close"}
    \/ ExportEnded /\ dest.exists /\ ~write_failed

\* "NNUE 768->256->1" in UTF-8.
DefaultDescriptionBytes ==
    <<78, 78, 85, 69, 32, 55, 54, 56, 45, 62, 50, 53, 54, 45, 62, 49>>

\* C9: the header written parses back, in order, as the magic 'NNUE', the
\* version identifier 0x7AF32F16, the architecture identifier 177, the
\* byte length N of the description and the N bytes of the description
\* 'NNUE {input_size}->{hidden_size}->1', with nothing after them.
C9_HeaderRoundTrip ==
    HeaderWritten =>
        /\ ReadMagic(dest.bytes) = <<78, 78, 85, 69>>
        /\ ReadVersion(dest.bytes) = 2062757654
        /\ ReadArchitecture(dest.bytes) = 177
        /\ ReadLength(dest.bytes) =
              Len(EncodeUtf8(Description(input_size, hidden_size)))
        /\ ReadDescription(dest.bytes) =
              EncodeUtf8(Description(input_size, hidden_size))
        /\ Len(dest.bytes) = 16 + ReadLength(dest.bytes)
        /\ (input_size = 768 /\ hidden_size = 256) =>
              /\ ReadLength(dest.bytes) = 16
              /\ ReadDescription(dest.bytes) = DefaultDescriptionBytes

C9_Witness ==
    /\ xpc = "main_return_0"
    /\ HeaderWritten
    /\ input_size = 768
    /\ hidden_size = 1024
    /\ ReadLength(dest.bytes) = 17
    /\ dest.sections # <<>>

\* The export has written both tensors of the feature-transformer section.
FeatureTransformerDone ==
    \/ xpc \in {"output_layers", "close"}
    \/ ExportEnded /\ dest.exists /\ ~write_failed

\* C16: what follows the description is the first feature-transformer
\* layer's weights as int16, input_size * hidden_size * 2 bytes, and right
\* after them that layer's bias as int32, hidden_size * 4 bytes.
C16_FeatureTransformerSection ==
    /\ dest.sections # <<>> =>
          /\ dest.bytes =
                MAGIC \o PackU32(VERSION_HASH) \o PackU32(ARCH_HASH)
                  \o PackU32(Len(EncodeUtf8(
                                     Description(input_size, hidden_size))))
                  \o EncodeUtf8(Description(input_size, hidden_size))
          /\ dest.sections[1] =
                [name |-> <<"feature_transformer", "0", "weight">>,
                 dtype |-> "int16", itemsize |-> 2,
                 numel |-> input_size * hidden_size]
    /\ Len(dest.sections) >= 2 =>
          dest.sections[2] =
              [name |-> <<"feature_transformer", "0", "bias">>,
               dtype |-> "int32", itemsize |-> 4, numel |-> hidden_size]
    /\ FeatureTransformerDone => Len(dest.sections) >= 2

\* The default architecture's section: 768 * 256 * 2 bytes of weights and
\* 256 * 4 bytes of bias.
C16_Witness ==
    /\ xpc = "output_layers"
    /\ input_size = 768
    /\ hidden_size = 256
    /\ Len(dest.sections) = 2
    /\ dest.sections[1].numel * dest.sections[1].itemsize = 393216
    /\ dest.sections[2].numel * dest.sections[2].itemsize = 1024

\* The output stage in forward order: the 32 -> 32 layer, then the 32 -> 1
\* layer, each as its weights in int8 followed by its bias in int32.
OutputStage ==
    << [name |-> <<"output_layers", "1", "weight">>, dtype |-> "int8",
        itemsize |-> 1, numel |-> 1024],
       [name |-> <<"output_layers", "1", "bias">>, dtype |-> "int32",
        itemsize |-> 4, numel |-> 32],
       [name |-> <<"output_layers", "3", "weight">>, dtype |-> "int8",
        itemsize |-> 1, numel |-> 32],
       [name |-> <<"output_layers", "3", "bias">>, dtype |-> "int32",
        itemsize |-> 4, numel |-> 1] >>

\* The export has written the whole output-stage section.
OutputStageDone ==
    \/ xpc = "close"
    \/ ExportEnded /\ dest.exists /\ ~write_failed

\* C17: at every moment, what has been written after the two tensors of
\* the feature-transformer section is a beginning of the output stage in
\* forward order (1024, 128, 32 and 4 bytes), so no output-stage tensor
\* comes before the feature-transformer section and no bias before its
\* own layer's weights; a finished export holds the whole output stage.
C17_OutputStageOrder ==
    LET n == Len(dest.sections)
    IN  /\ n <= 2 + Len(OutputStage)
        /\ \A k \in 1..n :
              IF k <= 2
              THEN ~Contains(dest.sections[k].name, <<"output_layers">>)
              ELSE dest.sections[k] = OutputStage[k - 2]
        /\ OutputStageDone => n = 2 + Len(OutputStage)

C17_Witness ==
    /\ xpc = "close"
    /\ Len(dest.sections) = 6
    /\ [k \in 1..4 |->
          dest.sections[k + 2].numel * dest.sections[k + 2].itemsize]
            = <<1024, 128, 32, 4>>

\* C20: f is open only while the with block runs: once a write has raised
\* or the export has ended, on success or on failure, f is not open.
C20_StreamClosedOnExit ==
    /\ stream = "open" =>
          xpc \in {"header", "feature_transformer", "output_layers",
                   "close"}
    /\ (xpc = "except" \/ ExportEnded) => stream # "open"

\* An export that failed while writing tensors has ended with f closed.
C20_Witness ==
    /\ ExportEnded
    /\ write_failed
    /\ dest.sections # <<>>
    /\ stream = "closed"

\* The value whose cast tensor k of the file holds.
SourceValue(k) == ValueOf(dest.sections[k].name)

\* The least and the greatest integer tensor k's type holds.
Least(k) ==
    CASE dest.sections[k].dtype = "int8" -> -128
      [] dest.sections[k].dtype = "int16" -> -32768
      [] dest.sections[k].dtype = "int32" -> -2147483647 - 1
Greatest(k) ==
    CASE dest.sections[k].dtype = "int8" -> 127
      [] dest.sections[k].dtype = "int16" -> 32767
      [] dest.sections[k].dtype = "int32" -> 2147483647

\* v is at least one more than the greatest value of tensor k's type (the
\* largest integer not above v exceeds it), or at least one less than the
\* least one.
Above(v, k) == v.n \div v.d > Greatest(k)
Below(v, k) == -((-v.n) \div v.d) < Least(k)

\* C18: a parameter value beyond the range of the type it is narrowed to
\* is written as the nearest end of that range, never as its low bits.
C18_OutOfRangeClipped ==
    \A k \in 1..Len(dest.data) :
        /\ Above(SourceValue(k), k) => dest.data[k] = Greatest(k)
        /\ Below(SourceValue(k), k) => dest.data[k] = Least(k)

\* C19: a parameter value within the range of its type is written as
\* itself with the fraction discarded, unscaled: the integer n of the same
\* sign with |n| <= |v| < |n| + 1, which is 0 when |v| < 1; so a weight and
\* a bias that differ only in their fraction are written as the same
\* integer.
C19_PlainTruncatingCast ==
    /\ Len(dest.data) = Len(dest.sections)
    /\ \A k \in 1..Len(dest.data) :
          LET v == SourceValue(k)
              n == dest.data[k]
          IN  (~Above(v, k) /\ ~Below(v, k)) =>
                  /\ v.n >= 0 => (n * v.d <= v.n /\ v.n < (n + 1) * v.d)
                  /\ v.n < 0 => (n * v.d >= v.n /\ v.n > (n - 1) * v.d)
                  /\ (-v.d < v.n /\ v.n < v.d) => n = 0
    /\ \A j, k \in 1..Len(dest.data) :
          LET u == SourceValue(j)
              v == SourceValue(k)
          IN  (/\ ~Above(u, j) /\ ~Below(u, j)
               /\ ~Above(v, k) /\ ~Below(v, k)
               /\ u.n >= 0 /\ v.n >= 0
               /\ u.n \div u.d = v.n \div v.d) =>
                  dest.data[j] = dest.data[k]

\* A finished export of weights -1.7 and biases 0.4: every weight is
\* written as -1 and every bias as 0.
C19_Witness ==
    /\ xpc = "main_return_0"
    /\ ~write_failed
    /\ state_dict = [weight |-> Rat(-17, 10), bias |-> Rat(2, 5)]
    /\ dest.data = <<-1, 0, -1, 0, -1, 0>>

----------------------------------------------------------------------------
(* load_training_data on its own: the rows the query gives and the cap     *)
(* vary.                                                                   *)

\* No position is being encoded.
CodecIdle ==
    /\ board = EmptyBoard
    /\ turn = WHITE
    /\ call = "none"
    /\ pc = "setup"
    /\ color = WHITE
    /\ king_square = None
    /\ todo = {}
    /\ features = {}
    /\ white_features = {}
    /\ black_features = {}
    /\ exc = "none"

\* The values of max_positions the model loads with: the scripts give
\* load_training_data whatever integer the command line or the
\* configuration holds.
MaxPositionsValues == 0..MaxRows

LoadInit ==
    /\ CodecIdle
    /\ EvalIdle
    /\ ExportIdle
    /\ TrainIdle
    /\ MainIdle
    /\ \E m \in MaxPositionsValues :
          config = [TrainingConfig(FALSE) EXCEPT !.max_positions = m]
    /\ rows \in SeqsUpTo(Rows, MaxRows)
    /\ positions = <<>>
    /\ seen_zobrist = {}
    /\ row_idx = 0
    /\ conn = "unopened"
    /\ lpc = "connect"
    /\ lexc = "none"

LoadNext ==
    \/ \E ok \in BOOLEAN : Connect(ok)
    \/ \E ok \in BOOLEAN : Execute(ok)
    \/ \E ok \in BOOLEAN : ProcessRow(ok)
    \/ CloseAndReturn
    \/ LogAndReraise

LoadSpec == LoadInit /\ [][LoadNext]_vars

\* The rows left when every row whose FEN an earlier row has is dropped.
RECURSIVE FirstOccurrences(_, _)
FirstOccurrences(seq, seen) ==
    IF seq = <<>> THEN <<>>
    ELSE IF Head(seq).fen \in seen
    THEN FirstOccurrences(Tail(seq), seen)
    ELSE <<Head(seq)>>
            \o FirstOccurrences(Tail(seq), seen \cup {Head(seq).fen})

\* No two entries of the list have the same FEN, and the entries are in
\* the order in which their FENs first occur in the rows.
DistinctInFirstOrder(list) ==
    /\ \A i, j \in DOMAIN list : list[i].fen = list[j].fen => i = j
    /\ Len(list) <= Len(FirstOccurrences(rows, {}))
    /\ list = SubSeq(FirstOccurrences(rows, {}), 1, Len(list))

\* C27: the list load_training_data returns has no FEN twice, keeps the
\* order of first occurrence, and has at most max_positions entries.
C27_LoadedPositions ==
    lpc = "returned" =>
        /\ DistinctInFirstOrder(positions)
        /\ Len(positions) <= config.max_positions


\* C28: when load_training_data has ended, by returning or by raising
\* again what the query or a row raised, the connection it opened is
\* closed.
C28_ConnectionClosed ==
    lpc \in {"returned", "raised"} => conn # "open"

----------------------------------------------------------------------------
(* NNUETrainer.train on its own: the positions the database holds, the     *)
(* validation split, the number of epochs, the batch size and the save     *)
(* frequency vary.                                                         *)

ValidationSplits == {Rat(0, 1), Rat(1, 10), Rat(1, 2)}
BatchSizes == {2, 8192}
SaveFrequencies == {1, 2}

\* The first k of the rows fen_a, fen_b, fen_c, ...: no FEN twice.
DistinctRows(k) ==
    LET fen(i) == CASE i = 1 -> "fen_a" [] i = 2 -> "fen_b" [] OTHER -> "fen_c"
    IN  [i \in 1..k |->
            [fen |-> fen(i), evaluation |-> Rat(150, 1), result |-> "1-0"]]

TrainConfigs ==
    {[TrainingConfig(FALSE) EXCEPT !.validation_split = vs,
                                    !.epochs = e,
                                    !.batch_size = b,
                                    !.save_frequency = f] :
        vs \in ValidationSplits, e \in 1..MaxEpochs, b \in BatchSizes,
        f \in SaveFrequencies}

TrainInit ==
    /\ CodecIdle
    /\ EvalIdle
    /\ ExportIdle
    /\ TrainIdle
    /\ MainIdle
    /\ config \in TrainConfigs
    /\ rows \in {DistinctRows(k) : k \in 0..Cardinality(Fens)}
    /\ positions = <<>>
    /\ seen_zobrist = {}
    /\ row_idx = 0
    /\ conn = "unopened"
    /\ lpc = "idle"
    /\ lexc = "none"

TrainNext ==
    \/ TrainStart
    \/ \E ok \in BOOLEAN : Connect(ok)
    \/ \E ok \in BOOLEAN : Execute(ok)
    \/ \E ok \in BOOLEAN : ProcessRow(ok)
    \/ CloseAndReturn
    \/ LogAndReraise
    \/ SplitData
    \/ TrainEpoch
    \/ Validate
    \/ SaveModels
    \/ ExportNnue

TrainSpec == TrainInit /\ [][TrainNext]_vars

\* What export_stockfish_nnue writes for a network when no write fails:
\* the bytes of its header, and its tensors.
StockfishHeader(in, hid) ==
    HeaderField(1, in, hid) \o HeaderField(2, in, hid)
        \o HeaderField(3, in, hid) \o HeaderField(4, in, hid)
        \o HeaderField(5, in, hid)

StockfishSections(in, hid) ==
    WrittenBy(named_parameters(in, hid), 1)
        \o WrittenByOutput(named_parameters(in, hid), 1)

\* train has returned after an export none of whose writes failed.
FinalExported ==
    /\ tpc = "returned"
    /\ export_attempts # <<>>
    /\ export_attempts[1].ok

\* C23: the file _export_nnue writes at the end of training has the field
\* layout export_stockfish_nnue gives the same network: the magic, the
\* version identifier, the architecture identifier, the length-prefixed
\* description, then the integer-narrowed sections.
C23_SameLayout ==
    FinalExported =>
        /\ final_nnue.bytes = StockfishHeader(input_size, hidden_size)
        /\ final_nnue.sections = StockfishSections(input_size, hidden_size)

\* train has gone past "if not positions: return".
PastEmptyCheck ==
    /\ lpc = "returned"
    /\ positions # <<>>
    /\ tpc \in {"train_epoch", "validate", "save", "export", "returned",
                "raised"}

\* C24: once train is past its empty-data check, the training subset and
\* the validation subset each yield at least one batch, so neither
\* _train_epoch nor _validate divides by a batch count of zero.
C24_BothSubsetsYieldBatch ==
    PastEmptyCheck =>
        /\ NumBatches(Len(train_positions), config.batch_size) >= 1
        /\ NumBatches(Len(val_positions), config.batch_size) >= 1
        /\ texc # "ZeroDivisionError"

\* The least of the losses logged, and the first epoch's place that has it.
MinLoss(history) ==
    CHOOSE x \in {history[i] : i \in DOMAIN history} :
        \A i \in DOMAIN history : Leq(x, history[i])

EarliestMin(history) ==
    Min({i \in DOMAIN history : history[i] = MinLoss(history)})

\* The body of the loop has run to its end at least once and is not in
\* the middle of an epoch's saves.
EpochsCompleted == val_history # <<>> /\ Len(val_history) = epoch

\* C25: after every epoch best_val_loss is the least validation loss of
\* the epochs run so far, and the best checkpoint holds the parameters and
\* the number of the earliest epoch that had it: a later epoch whose loss
\* is equal or larger does not overwrite it.
C25_BestCheckpoint ==
    EpochsCompleted =>
        LET first == EarliestMin(val_history)
        IN  /\ best_val_loss = Finite(MinLoss(val_history))
            /\ best_pth = Checkpoint(first - 1, first, MinLoss(val_history))

\* Training has ended after a later epoch repeated the least loss.
C25_Witness ==
    /\ tpc = "returned"
    /\ EpochsCompleted
    /\ \E i \in DOMAIN val_history :
          /\ i > EarliestMin(val_history)
          /\ val_history[i] = MinLoss(val_history)
    /\ best_pth.epoch = EarliestMin(val_history) - 1

\* The regular checkpoints a run of `epochs` epochs with the given
\* save frequency leaves.
RegularSaves(epochs, frequency) ==
    {k \in 1..epochs : k % frequency = 0}

C26_WitnessNoData ==
    /\ tpc = "returned"
    /\ lpc = "returned"
    /\ positions = <<>>
    /\ export_attempts = <<>>

----------------------------------------------------------------------------
(* The scripts on their own: the command line, the user's answer and       *)
(* whether CUDA is there vary.                                             *)

MainInit ==
    /\ CodecIdle
    /\ EvalIdle
    /\ ExportIdle
    /\ LoadIdle
    /\ TrainIdle
    /\ entry \in Entries
    /\ cuda_available \in BOOLEAN
    /\ overrides \in (IF entry \in TrainingScripts THEN Overrides
                      ELSE {NoOverrides})
    /\ answer \in (IF entry = "quick_start.py" THEN {"y", "n"} ELSE {""})
    /\ config \in (IF entry = "caller" THEN CallerConfigs
                   ELSE {TrainingConfig(cuda_available)})
    /\ mpc = "start"
    /\ issues = <<>>
    /\ rc = -1

MainNext ==
    \/ Configure
    \/ ValidateConfig
    \/ AfterValidation

MainSpec == MainInit /\ [][MainNext]_vars


\* validate_config has returned.
Validated == mpc \in {"validated", "train", "returned"}

\* What the claim says a configuration must satisfy to pass.
InRange(c) ==
    /\ c.connection_string # ""
    /\ 64 <= c.batch_size /\ c.batch_size <= 32768
    /\ Leq(Rat(1, 1000000), c.learning_rate)
    /\ Leq(c.learning_rate, Rat(1, 10))
    /\ c.max_positions >= 1000

\* C29: validate_config returns no issue exactly when the connection
\* string is not empty, the batch size is from 64 to 32768, the learning
\* rate from 1e-6 to 0.1 and max_positions at least 1000, whatever the
\* device and whether or not CUDA is there; every preset and the small
\* validation configuration pass.
C29_ValidateConfig ==
    Validated =>
        /\ issues = <<>> <=> InRange(config)
        /\ (entry \in TrainingScripts
              /\ overrides = [NoOverrides EXCEPT !.config = overrides.config])
              => issues = <<>>
        /\ entry = "nnue_validation.py" => issues = <<>>

\* A configuration on 'cuda' has passed on a machine without CUDA.
C29_Witness ==
    /\ Validated
    /\ config.device = "cuda"
    /\ ~cuda_available
    /\ issues = <<>>
    /\ entry = "caller"


\* NNUETrainer.train has been called in this run.
TrainCalled == tpc # "idle"

\* C30: a script to which validate_config reported an issue does not call
\* train in that run, be it NNUE.py, nnue_main.py or quick_start.py.
C30_NoTrainingOnIssues ==
    (Validated /\ issues # <<>>) =>
        /\ ~TrainCalled
        /\ mpc = "returned" /\ entry \in TrainingScripts => rc = 1

\* A training script has returned 1 on an issue without calling train.
C30_Witness ==
    /\ entry \in TrainingScripts
    /\ mpc = "returned"
    /\ issues # <<>>
    /\ rc = 1
    /\ ~TrainCalled

\* quick_start.py has called train, after validate_config and the 'y'.
C30_QuickStartTrains ==
    /\ entry = "quick_start.py"
    /\ Validated
    /\ TrainCalled

====
